---- MODULE Spec2Model ----
(***************************************************************************)
(* FlowPilot authorization platform: delegation graph store, delegation    *)
(* path search, authorization engine and outbound-read cache.              *)
(*                                                                         *)
(* Time is an integer clock; ISO-8601 timestamps of one UTC offset compare *)
(* lexicographically as their instants do, so expires_at, created_at and   *)
(* revoked_at are integers and NoTime stands for SQL NULL.                 *)
(***************************************************************************)
EXTENDS Integers, Sequences, FiniteSets, TLC

VARIABLES
    backend,      \* which DelegationGraphDB class is wired: "postgres" | "sqlite"
    delegations,  \* the delegations table: sequence of rows, index = id
    now,          \* wall clock
    pc,           \* per handler thread: position inside create_delegation
    req,          \* per handler thread: arguments of the call in flight
    existing_row, \* per handler thread: row fetched by insert_edge's first SELECT
    pre,          \* per handler thread: table when the call started (history)
    last_call,    \* per handler thread: the call it completed last (history)
    ncalls,       \* SpecConc: number of requests accepted so far
    q_args,       \* SpecQuery: arguments of the query that ran last
    q_result,     \* SpecQuery: its result
    cache_enabled,\* CACHE_ENABLED of the authorization engine's process
    cache_store,  \* its cache backend: set of entries (key, value, expiry)
    az_out,       \* the evaluation that completed last (history)
    revoked_ok,   \* triples whose revoke returned true (history)
    cache_backend,\* class of _cache_backend: "memory" | "redis"
    upstream,     \* SpecCache: per URL, the version of the resource upstream
    cache_out,    \* SpecCache: the call of the HTTP helpers that ran last (history)
    service_token_cache, \* _service_token_cache of the process
    tk_pc,        \* per handler thread: position inside get_service_token
    tk_out,       \* per handler thread: what get_service_token returned last (history)
    minted,       \* tokens the identity provider has issued
    persona_backend, \* which PersonaDB class the build resolved: "sqlite" | "firestore"
    personas,     \* the personas table / collection: set of stored personas
    ps_pc,        \* per handler thread: position inside create_persona
    ps_req,       \* per handler thread: the create request in flight
    ps_out,       \* the call of the persona API that completed last (history)
    workflows,    \* _workflows of the domain service: per workflow id, its items
    ds_out,       \* the call of the domain service that completed last (history)
    ag_out        \* the call of the agent runner that completed last (history)

graphVars == <<backend, delegations, now, pc, req, existing_row, pre, last_call, ncalls>>
queryVars == <<q_args, q_result>>
authzVars == <<cache_enabled, cache_store, az_out, revoked_ok>>
libVars == <<cache_backend, upstream, cache_out>>
tokenVars == <<service_token_cache, tk_pc, tk_out, minted>>
personaVars == <<persona_backend, personas, ps_pc, ps_req, ps_out>>
runVars == <<workflows, ds_out, ag_out>>
extVars == <<libVars, tokenVars, personaVars, runVars>>
vars == <<backend, delegations, now, pc, req, existing_row, pre, last_call, ncalls,
          q_args, q_result, cache_enabled, cache_store, az_out, revoked_ok,
          cache_backend, upstream, cache_out,
          service_token_cache, tk_pc, tk_out, minted,
          persona_backend, personas, ps_pc, ps_req, ps_out,
          workflows, ds_out, ag_out>>

----------------------------------------------------------------------------
(* Bounds of the model *)

MaxTime  == 1   \* the clock stops here
MaxDays  == 2   \* largest expires_in_days a request carries
MaxRows  == 2   \* rows the delegations table may hold in Spec
ConcCalls == 2  \* requests handled in SpecConc
MaxEdges == 3   \* rows of the table in SpecQuery
MaxDepthArg == 2 \* largest max_depth passed to find_delegation_path in SpecQuery
MaxClock == 181 \* SpecAuthz, SpecCache: the clock (seconds) stops here
MaxVersion == 1 \* SpecCache: changes a resource may undergo upstream
MaxMints == 3   \* SpecToken: tokens the identity provider issues
MaxTokenClock == 480 \* SpecToken: the clock (seconds) stops here

----------------------------------------------------------------------------
(* Values *)

NULL   == "NULL"     \* SQL NULL / Python None for workflow_id
NoTime == -1         \* SQL NULL for a timestamp

Procs == {"h1", "h2"}            \* concurrent request handlers
Backends == {"postgres", "sqlite"}

\* DELEGATION_ALLOWED_ACTIONS, default "read,execute"
DELEGATION_ALLOWED_ACTIONS == {"read", "execute"}

\* find_delegation_path's default max_depth
DefaultMaxDepth == 5

ToSet(seq) == {seq[i] : i \in DOMAIN seq}

\* sorted(list(S)) for a set of action names: Python orders "execute" < "read"
SortedList(S) == SelectSeq(<<"execute", "read">>, LAMBDA a : a \in S)

IsSubsetEq(a, b) == a \subseteq b

Max(a, b) == IF a > b THEN a ELSE b

\* scope argument None is the one-element list naming no action
ScopeNone == <<"None">>

\* insert_edge: if scope is None: scope = ["execute"]
DefaultScope(scope) == IF scope = ScopeNone THEN <<"execute">> ELSE scope

NoRow == [principal_id |-> "", delegate_id |-> "", workflow_id |-> NULL,
          scope |-> <<>>, expires_at |-> NoTime, created_at |-> NoTime,
          revoked_at |-> NoTime]

NewRow(p, d, w, s, e, c) ==
    [principal_id |-> p, delegate_id |-> d, workflow_id |-> w,
     scope |-> s, expires_at |-> e, created_at |-> c, revoked_at |-> NoTime]

----------------------------------------------------------------------------
(* SQL predicates of graphdb.py / graphdb_sqlite.py *)

\* principal_id = ? AND delegate_id = ?
\* AND (workflow_id = ? OR (workflow_id IS NULL AND ? IS NULL))
MatchesTriple(r, p, d, w) ==
    r.principal_id = p /\ r.delegate_id = d /\ r.workflow_id = w

\* revoked_at IS NULL AND expires_at > now
IsLive(r, t) == r.revoked_at = NoTime /\ r.expires_at > t

\* a filter that matches the named workflow only
WorkflowFilter_Exact(r, w) == w = NULL \/ r.workflow_id = w

\* AND (workflow_id = ? OR workflow_id IS NULL), added only when a filter is given
WorkflowFilter(r, w) == w = NULL \/ r.workflow_id = w \/ r.workflow_id = NULL

\* ids of the rows the first SELECT of insert_edge can return
ExistingRows(be, tbl, p, d, w, s) ==
    {i \in DOMAIN tbl :
        /\ MatchesTriple(tbl[i], p, d, w)
        /\ tbl[i].revoked_at = NoTime
        /\ (be = "sqlite" => tbl[i].scope = s)}

\* the table's UNIQUE constraint rejects the INSERT (NULLs never collide)
UniqueViolationPostgres(tbl, p, d, w, s) ==
    /\ w # NULL
    /\ \E i \in DOMAIN tbl : MatchesTriple(tbl[i], p, d, w)

UniqueViolationSqlite(tbl, p, d, w, s) ==
    /\ w # NULL
    /\ \E i \in DOMAIN tbl : MatchesTriple(tbl[i], p, d, w) /\ tbl[i].scope = s

UniqueViolation(be, tbl, p, d, w, s) ==
    IF be = "postgres" THEN UniqueViolationPostgres(tbl, p, d, w, s)
                       ELSE UniqueViolationSqlite(tbl, p, d, w, s)

\* needs_update of insert_edge (postgres)
NeedsUpdate(ex, s, e) ==
    \/ ~ IsSubsetEq(ToSet(s), ToSet(ex.scope))
    \/ e > ex.expires_at

\* the UPDATE of insert_edge without its "AND revoked_at IS NULL"
MergeUpdate_AnyRow(tbl, ex, p, d, w, s, e) ==
    [i \in DOMAIN tbl |->
        IF MatchesTriple(tbl[i], p, d, w)
        THEN [tbl[i] EXCEPT !.scope = SortedList(ToSet(ex.scope) \cup ToSet(s)),
                            !.expires_at = Max(e, ex.expires_at)]
        ELSE tbl[i]]

\* UPDATE delegations SET scope = merged, expires_at = max(...) WHERE triple AND revoked_at IS NULL
MergeUpdate(tbl, ex, p, d, w, s, e) ==
    [i \in DOMAIN tbl |->
        IF MatchesTriple(tbl[i], p, d, w) /\ tbl[i].revoked_at = NoTime
        THEN [tbl[i] EXCEPT !.scope = SortedList(ToSet(ex.scope) \cup ToSet(s)),
                            !.expires_at = Max(e, ex.expires_at)]
        ELSE tbl[i]]

\* the UPDATE of revoke_edge without its revoked_at IS NULL condition
RevokeUpdate_Overwrite(tbl, p, d, w, t) ==
    [i \in DOMAIN tbl |->
        IF MatchesTriple(tbl[i], p, d, w)
        THEN [tbl[i] EXCEPT !.revoked_at = t]
        ELSE tbl[i]]

\* UPDATE delegations SET revoked_at = now WHERE triple AND revoked_at IS NULL
RevokeUpdate(tbl, p, d, w, t) ==
    [i \in DOMAIN tbl |->
        IF MatchesTriple(tbl[i], p, d, w) /\ tbl[i].revoked_at = NoTime
        THEN [tbl[i] EXCEPT !.revoked_at = t]
        ELSE tbl[i]]

\* cursor.rowcount > 0 of revoke_edge
RevokeCount(tbl, p, d, w) ==
    Cardinality({i \in DOMAIN tbl :
        MatchesTriple(tbl[i], p, d, w) /\ tbl[i].revoked_at = NoTime})

\* rows of list_outgoing_edges / list_incoming_edges before ORDER BY
ListOutgoingRows(tbl, p, w, include_expired, t) ==
    {i \in DOMAIN tbl :
        /\ tbl[i].principal_id = p
        /\ tbl[i].revoked_at = NoTime
        /\ WorkflowFilter(tbl[i], w)
        /\ (~ include_expired => tbl[i].expires_at > t)}

ListIncomingRows(tbl, d, w, include_expired, t) ==
    {i \in DOMAIN tbl :
        /\ tbl[i].delegate_id = d
        /\ tbl[i].revoked_at = NoTime
        /\ WorkflowFilter(tbl[i], w)
        /\ (~ include_expired => tbl[i].expires_at > t)}

----------------------------------------------------------------------------
(* find_delegation_path: breadth-first search with action intersection *)

\* all orders in which a SELECT without ORDER BY may deliver the rows
RowOrders(tbl) ==
    {f \in [1..Len(tbl) -> 1..Len(tbl)] :
        \A i, j \in 1..Len(tbl) : i # j => f[i] # f[j]}

\* the hop query of find_delegation_path without its liveness conditions
HopRows_AnyRow(tbl, ord, cur, w, t) ==
    SelectSeq(ord, LAMBDA i :
        /\ tbl[i].principal_id = cur
        /\ WorkflowFilter(tbl[i], w))

\* SELECT delegate_id, scope FROM delegations WHERE principal_id = ?
\* AND revoked_at IS NULL AND expires_at > ? [AND (workflow_id = ? OR workflow_id IS NULL)]
HopRows(tbl, ord, cur, w, t) ==
    SelectSeq(ord, LAMBDA i :
        /\ tbl[i].principal_id = cur
        /\ IsLive(tbl[i], t)
        /\ WorkflowFilter(tbl[i], w))

\* an edge that grants every action whatever its scope
EdgeActions_All(r) == {"read", "execute"}

\* edge_actions = set(json.loads(scope_value))
EdgeActions(r) == ToSet(r.scope)

\* queue item (current_id, path, path_actions); edges lists the row ids taken
QueueItem(id, path, actions, edges) ==
    [id |-> id, path |-> path, actions |-> actions, edges |-> edges]

\* the body of "for row in rows" for rows[k..]
RECURSIVE ScanRows(_, _, _, _, _, _)
ScanRows(tbl, rows, k, item, dst, st) ==
    IF k > Len(rows) THEN st
    ELSE
      LET row == tbl[rows[k]]
          next_id == row.delegate_id
          new_path_actions == item.actions \cap EdgeActions(row)
      IN  IF new_path_actions = {}
          THEN ScanRows(tbl, rows, k + 1, item, dst, st)
          ELSE IF next_id = dst
          THEN ScanRows(tbl, rows, k + 1, item, dst,
                 [st EXCEPT !.valid_paths = Append(@,
                     [path |-> Append(item.path, next_id),
                      delegated_actions |-> SortedList(new_path_actions),
                      edges |-> Append(item.edges, rows[k])])])
          ELSE IF next_id \notin st.visited
          THEN ScanRows(tbl, rows, k + 1, item, dst,
                 [st EXCEPT !.visited = @ \cup {next_id},
                            !.queue = Append(@, QueueItem(next_id,
                                Append(item.path, next_id), new_path_actions,
                                Append(item.edges, rows[k])))])
          ELSE ScanRows(tbl, rows, k + 1, item, dst, st)

\* a loop that stops one node earlier
QueueDone_OneShort(queue, max_depth) ==
    queue = <<>> \/ Len(queue[1].path) >= max_depth

\* not (queue and len(queue[0][1]) <= max_depth)
\* a loop that runs until the queue is empty, whatever the depth of its head
QueueDone_NoDepth(queue, max_depth) == queue = <<>>

QueueDone(queue, max_depth) ==
    queue = <<>> \/ Len(queue[1].path) > max_depth

\* while queue and len(queue[0][1]) <= max_depth
RECURSIVE BfsLoop(_, _, _, _, _, _, _)
BfsLoop(tbl, ord, dst, w, max_depth, t, st) ==
    IF QueueDone(st.queue, max_depth) THEN st
    ELSE
      LET item == Head(st.queue)
          rows == HopRows(tbl, ord, item.id, w, t)
          popped == [st EXCEPT !.queue = Tail(@),
                               !.expanded = Append(@, item.id),
                               !.scanned = @ \cup ToSet(rows)]
      IN  BfsLoop(tbl, ord, dst, w, max_depth, t,
                  ScanRows(tbl, rows, 1, item, dst, popped))

\* path_strength: (has_execute, -len(path))
PathStrength(p) ==
    <<IF "execute" \in ToSet(p.delegated_actions) THEN 1 ELSE 0, 0 - Len(p.path)>>

KeyLess(a, b) == a[1] < b[1] \/ (a[1] = b[1] /\ a[2] < b[2])

\* max(valid_paths, key=path_strength): the first element with the largest key
RECURSIVE MaxByStrength(_, _, _)
MaxByStrength(paths, k, best) ==
    IF k > Len(paths) THEN best
    ELSE MaxByStrength(paths, k + 1,
            IF KeyLess(PathStrength(best), PathStrength(paths[k]))
            THEN paths[k] ELSE best)

\* result None; edges, expanded and scanned record the search (history):
\* row ids along the returned path, nodes popped, row ids the hop queries gave
NoPath == [found |-> FALSE, path |-> <<>>, delegated_actions |-> <<>>,
           edges |-> <<>>, expanded |-> <<>>, scanned |-> {}]

\* the path found with the search record (history) added
FoundPath(best, st) ==
    [found |-> TRUE, path |-> best.path, delegated_actions |-> best.delegated_actions,
     edges |-> best.edges, expanded |-> st.expanded, scanned |-> st.scanned]

\* if valid_paths: return max(valid_paths, key=path_strength); return None
PathResult(st) ==
    IF st.valid_paths # <<>>
    THEN FoundPath(MaxByStrength(st.valid_paths, 2, st.valid_paths[1]), st)
    ELSE [NoPath EXCEPT !.expanded = st.expanded, !.scanned = st.scanned]

find_delegation_path(tbl, ord, principal_id, delegate_id, workflow_id, max_depth, t) ==
    IF principal_id = delegate_id
    THEN [found |-> TRUE, path |-> <<principal_id>>,
          delegated_actions |-> <<"read", "execute">>,
          edges |-> <<>>, expanded |-> <<>>, scanned |-> {}]
    ELSE
      PathResult(BfsLoop(tbl, ord, delegate_id, workflow_id, max_depth, t,
                    [queue |-> <<QueueItem(principal_id, <<principal_id>>,
                                           {"read", "execute"}, <<>>)>>,
                     visited |-> {principal_id},
                     valid_paths |-> <<>>,
                     expanded |-> <<>>,
                     scanned |-> {}]))

----------------------------------------------------------------------------
(* The delegation service.  One step per SQL statement: every statement of *)
(* a READ COMMITTED connection sees the rows committed before it.  In Spec *)
(* requests arrive one after the other; in SpecConc two handler threads    *)
(* run their requests concurrently.                                        *)

WorkflowArgs == {NULL, "W1"}
ScopeArgs == {ScopeNone, <<"read">>}

\* (principal_id, delegate_id, sub of the caller's token) of the POST requests
CreateArgs == {<<"U1", "U2", "U1">>}
\* (principal_id, delegate_id) of the DELETE requests
RevokeArgs == {<<"U1", "U2">>}

NoReq == [op |-> "none", p |-> "", d |-> "", w |-> NULL, s |-> <<>>,
          days |-> 0, e |-> NoTime, delegator |-> NULL, n |-> 0]

\* record of one completed call (history): its arguments, the table when it
\* started and when it returned, the edge returned, the exception and the status;
\* n_start < n_end when another request was accepted while it ran
CallRecord(r, pre_tbl, post_tbl, t, rows, raised, http, revoked) ==
    [op |-> r.op, p |-> r.p, d |-> r.d, w |-> r.w, s |-> r.s, e |-> r.e,
     delegator |-> r.delegator,
     pre |-> pre_tbl, post |-> post_tbl, t |-> t,
     rows |-> rows, raised |-> raised, http |-> http,
     revoked |-> revoked, n_start |-> r.n, n_end |-> ncalls]

NoCall == CallRecord(NoReq, <<>>, <<>>, 0, <<>>, "", 0, FALSE)

AllIdle == \A q \in Procs : pc[q] = "idle"

\* the call of handler h returns: record it and free the handler
Complete(h, r, post_tbl, rows, raised, http) ==
    /\ last_call' = [last_call EXCEPT ![h] =
                        CallRecord(r, pre[h], post_tbl, now, rows, raised, http, FALSE)]
    /\ pc' = [pc EXCEPT ![h] = "idle"]
    /\ req' = [req EXCEPT ![h] = NoReq]
    /\ existing_row' = [existing_row EXCEPT ![h] = NoRow]
    /\ pre' = [pre EXCEPT ![h] = <<>>]

\* what validate_delegation makes of the path search's result
ValidateResult(path_result) ==
    IF path_result.found
    THEN [valid |-> TRUE, delegation_chain |-> path_result.path,
          delegated_actions |-> ToSet(path_result.delegated_actions)]
    ELSE [valid |-> FALSE, delegation_chain |-> <<>>, delegated_actions |-> {}]

\* a validation that finds every delegator entitled to everything
validate_delegation_AlwaysValid(tbl, ord, principal_id, delegate_id, workflow_id, t) ==
    [valid |-> TRUE, delegation_chain |-> <<principal_id>>,
     delegated_actions |-> DELEGATION_ALLOWED_ACTIONS]

\* validate_delegation (delegation_core.py)
validate_delegation(tbl, ord, principal_id, delegate_id, workflow_id, t) ==
    IF delegate_id = principal_id
    THEN [valid |-> TRUE, delegation_chain |-> <<principal_id>>,
          delegated_actions |-> DELEGATION_ALLOWED_ACTIONS]
    ELSE ValidateResult(find_delegation_path(tbl, ord, principal_id, delegate_id,
                                             workflow_id, DefaultMaxDepth, t))

\* requested_actions = set(scope) if scope else {"execute"}
RequestedActions(scope) ==
    IF scope = ScopeNone \/ scope = <<>> THEN {"execute"} ELSE ToSet(scope)

\* effective_delegator_id of handle_post_delegations (the token is no service account)
EffectiveDelegator(sub, principal_id) ==
    IF sub # NULL /\ sub # principal_id THEN sub ELSE NULL

\* handle_post_delegations -> create_delegation, up to the call of insert_edge
CreateStart(h, p, d, w, s, days, sub) ==
    /\ pc[h] = "idle"
    /\ LET delegator == EffectiveDelegator(sub, p)
           r == [op |-> "create", p |-> p, d |-> d, w |-> w, s |-> s,
                 days |-> days, e |-> now + days, delegator |-> delegator,
                 n |-> ncalls']
           refuse == \* ValueError -> 400
                /\ last_call' = [last_call EXCEPT ![h] =
                        CallRecord(r, delegations, delegations, now, <<>>,
                                   "ValueError", 400, FALSE)]
                /\ UNCHANGED <<pc, req, existing_row, pre>>
           proceed ==
                /\ pc' = [pc EXCEPT ![h] = "ie_select"]
                /\ req' = [req EXCEPT ![h] = r]
                /\ pre' = [pre EXCEPT ![h] = delegations]
                /\ UNCHANGED <<last_call, existing_row>>
       IN
       IF p = d \/ days <= 0 THEN refuse
       ELSE IF delegator # NULL /\ delegator # p
       THEN \E ord \in RowOrders(delegations) :
              LET v == validate_delegation(delegations, ord, p, delegator, w, now)
              IN  IF ~ v.valid \/ ~ IsSubsetEq(RequestedActions(s), v.delegated_actions)
                  THEN refuse ELSE proceed
       ELSE proceed
    /\ UNCHANGED <<backend, delegations, now>>

\* keys of the dict insert_edge returns
EdgeDictKeys == {"principal_id", "delegate_id", "workflow_id", "scope",
                 "expires_at", "created_at", "revoked_at"}

\* delegation, was_created = self.graphdb.insert_edge(...): unpacking iterates the
\* dict's keys and raises ValueError unless there are exactly two
UnpackRaises(keys) == Cardinality(keys) # 2

\* status of handle_post_delegations once insert_edge returned a dict
PostStatusAfterInsert(was_created) ==
    IF UnpackRaises(EdgeDictKeys) THEN 400
    ELSE IF was_created THEN 201 ELSE 200

RaisedAfterInsert == IF UnpackRaises(EdgeDictKeys) THEN "ValueError" ELSE ""

\* insert_edge: SELECT the existing non-revoked row, then decide
InsertSelect(h) ==
    /\ pc[h] = "ie_select"
    /\ LET r == [req[h] EXCEPT !.s = DefaultScope(req[h].s)]
           found == ExistingRows(backend, delegations, r.p, r.d, r.w, r.s)
       IN
       IF found = {}
       THEN /\ pc' = [pc EXCEPT ![h] = "ie_insert"]
            /\ req' = [req EXCEPT ![h] = r]
            /\ UNCHANGED <<existing_row, pre, last_call>>
       ELSE \E i \in found :        \* cursor.fetchone()
            IF backend = "sqlite"
            THEN \* raise ValueError("... already exists ...") -> 400
                 Complete(h, r, delegations, <<>>, "ValueError", 400)
            ELSE IF ~ NeedsUpdate(delegations[i], r.s, r.e)
            THEN \* return the existing row unchanged
                 Complete(h, r, delegations, <<delegations[i]>>, RaisedAfterInsert,
                          PostStatusAfterInsert(FALSE))
            ELSE /\ pc' = [pc EXCEPT ![h] = "ie_update"]
                 /\ req' = [req EXCEPT ![h] = r]
                 /\ existing_row' = [existing_row EXCEPT ![h] = delegations[i]]
                 /\ UNCHANGED <<pre, last_call>>
    /\ UNCHANGED <<backend, delegations, now>>

\* insert_edge: UPDATE ... SET scope = merged, expires_at = max; commit
InsertUpdate(h) ==
    /\ pc[h] = "ie_update"
    /\ delegations' = MergeUpdate(delegations, existing_row[h],
                                  req[h].p, req[h].d, req[h].w, req[h].s, req[h].e)
    /\ pc' = [pc EXCEPT ![h] = "ie_fetch"]
    /\ UNCHANGED <<backend, now, req, existing_row, pre, last_call>>

\* insert_edge: INSERT INTO delegations ...; commit
InsertInsert(h) ==
    /\ pc[h] = "ie_insert"
    /\ LET r == req[h] IN
       IF UniqueViolation(backend, delegations, r.p, r.d, r.w, r.s)
       THEN \* IntegrityError leaves insert_edge and create_delegation -> 500
            /\ Complete(h, r, delegations, <<>>, "IntegrityError", 500)
            /\ UNCHANGED delegations
       ELSE /\ delegations' = Append(delegations, NewRow(r.p, r.d, r.w, r.s, r.e, now))
            /\ pc' = [pc EXCEPT ![h] = "ie_fetch"]
            /\ UNCHANGED <<req, existing_row, pre, last_call>>
    /\ UNCHANGED <<backend, now>>

\* insert_edge: SELECT * ... WHERE triple (any revoked_at); fetchone(); return the dict;
\* create_delegation then unpacks it
InsertFetch(h) ==
    /\ pc[h] = "ie_fetch"
    /\ LET r == req[h]
           found == {i \in DOMAIN delegations : MatchesTriple(delegations[i], r.p, r.d, r.w)}
       IN  \E i \in found :
             Complete(h, r, delegations, <<delegations[i]>>, RaisedAfterInsert,
                      PostStatusAfterInsert(existing_row[h] = NoRow))
    /\ UNCHANGED <<backend, delegations, now>>

\* handle_delete_delegations -> revoke_delegation -> revoke_edge (one UPDATE)
Revoke(h, p, d, w) ==
    /\ pc[h] = "idle"
    /\ LET r == [NoReq EXCEPT !.op = "revoke", !.p = p, !.d = d, !.w = w, !.n = ncalls']
           revoked == RevokeCount(delegations, p, d, w) > 0
           post == RevokeUpdate(delegations, p, d, w, now)
       IN  /\ delegations' = post
           /\ last_call' = [last_call EXCEPT ![h] =
                  CallRecord(r, delegations, post, now, <<>>,
                             IF revoked THEN "" ELSE "ValueError",
                             IF revoked THEN 200 ELSE 400,
                             revoked)]
    /\ UNCHANGED <<backend, now, pc, req, existing_row, pre>>

\* time passes
Tick ==
    /\ now < MaxTime
    /\ now' = now + 1
    /\ UNCHANGED <<backend, delegations, pc, req, existing_row, pre, last_call>>

GraphInit ==
    /\ backend \in Backends
    /\ delegations = <<>>
    /\ now = 0
    /\ pc = [h \in Procs |-> "idle"]
    /\ req = [h \in Procs |-> NoReq]
    /\ existing_row = [h \in Procs |-> NoRow]
    /\ pre = [h \in Procs |-> <<>>]
    /\ ncalls = 0
    /\ last_call = [h \in Procs |-> NoCall]

----------------------------------------------------------------------------
(* The authorization engine: authz_core.py, authz_main.py, and the cache   *)
(* that wraps its outbound GETs (utils.py, cache.py)                       *)

\* CACHE_TTL_DELEGATION, seconds
CACHE_TTL_DELEGATION == 180

\* names of the manifests in _POLICY_REGISTRY
PolicyNames == {"travel", "nursing"}

\* ALLOWED_ACTIONS: the allowed_actions of all manifests
ALLOWED_ACTIONS == {"read", "execute"}

EmptyDelegation == [delegation_chain |-> <<>>, delegated_actions |-> <<>>]

\* an AuthZEN request, reduced to what the pipeline branches on
\* owner is resource.properties.owner.id and owner_key the key of that object
\* which carries the owner's persona: "persona_title" (the wire format),
\* "persona", "persona_id", or NULL when the object names no persona
AzRequest(hint, subject_ok, action, attrs_ok, owner, principal, persona_title, owner_key) ==
    [policy_hint |-> hint, subject_ok |-> subject_ok, action |-> action,
     attrs_ok |-> attrs_ok, owner |-> owner, principal |-> principal,
     persona_title |-> persona_title, owner_key |-> owner_key, workflow_id |-> "W1"]

\* the collaborators as one evaluation meets them
AzEnv(persona, delegation_api, opa) ==
    [persona |-> persona, delegation_api |-> delegation_api, opa |-> opa]

\* PolicyRegistry.select_policy: self.policies[policy_hint] or ValueError
select_policy(policy_hint) ==
    IF policy_hint = NULL THEN [raised |-> "ValueError", policy |-> NULL]
    ELSE IF policy_hint \notin PolicyNames THEN [raised |-> "ValueError", policy |-> NULL]
    ELSE [raised |-> "", policy |-> CHOOSE m \in PolicyNames : m = policy_hint]

\* build_opa_subject
build_opa_subject(rq) == IF rq.subject_ok THEN "ok" ELSE "ValueError"

\* an action check that lets every action name through
build_opa_action_Any(rq) == "ok"

\* build_opa_action
build_opa_action(rq) == IF rq.action \in ALLOWED_ACTIONS THEN "ok" ELSE "ValueError"

\* a persona fetch that raises on a 404 as on any other failure
fetch_persona_by_user_and_title_Raise404(env) ==
    CASE env.persona = "down" -> "RuntimeError"
      [] env.persona = "not_found" -> "RuntimeError"
      [] OTHER -> "persona"

\* fetch_persona_by_user_and_title: a 404 gives {}, any other failure raises
fetch_persona_by_user_and_title(env) ==
    CASE env.persona = "down" -> "RuntimeError"
      [] env.persona = "not_found" -> "empty"
      [] OTHER -> "persona"

\* build_opa_resource fetches the owner's persona: owner.id is set and the
\* owner object has "persona_id" (fetch_persona) or "persona"
\* (fetch_persona_by_user_and_title); both fetches fail in the same way
OwnerFetched(rq) == rq.owner # NULL /\ rq.owner_key \in {"persona_id", "persona"}

\* a resource step without normalize_attributes
build_opa_resource_NoValidation(rq, env) ==
    IF OwnerFetched(rq) /\ fetch_persona_by_user_and_title(env) = "RuntimeError"
    THEN "RuntimeError"
    ELSE "ok"

\* build_opa_resource: normalize_attributes, then the owner's persona
build_opa_resource(rq, env) ==
    IF ~ rq.attrs_ok THEN "ValueError"
    ELSE IF OwnerFetched(rq) /\ fetch_persona_by_user_and_title(env) = "RuntimeError"
    THEN "RuntimeError"
    ELSE "ok"

\* PolicyManifest.persona_attributes: names of the attributes with source persona
persona_attributes(policy) ==
    IF policy = "travel" THEN {"consent", "autobook_price"}
    ELSE IF policy = "nursing" THEN {"certification_level"}
    ELSE {}

\* keys of a persona that are not policy attributes
PersonaMetadata == {"persona_id", "user_sub", "title", "circle", "scope", "status",
                    "valid_from", "valid_till", "created_at", "updated_at"}

\* keys of the persona the registry returns: metadata and the attributes of
\* its policy; {} stands for the empty dict of a 404
PersonaKeys(env, policy) ==
    IF fetch_persona_by_user_and_title(env) = "persona"
    THEN PersonaMetadata \cup persona_attributes(policy)
    ELSE {}

\* keys of resource.properties.owner as the request carries them
OwnerRequestKeys(rq) ==
    IF rq.owner = NULL THEN {}
    ELSE IF rq.owner_key = NULL THEN {"type", "id"}
    ELSE {"type", "id", rq.owner_key}

\* keys of resource.properties.owner as build_opa_resource returns it: the
\* request's keys and, when a persona was fetched, the persona attributes
\* of the manifest that the persona has
build_opa_resource_owner(rq, env, policy) ==
    IF OwnerFetched(rq)
    THEN OwnerRequestKeys(rq)
            \cup {a \in persona_attributes(policy) : a \in PersonaKeys(env, policy)}
    ELSE OwnerRequestKeys(rq)

\* _generate_cache_key: "flowpilot:" resource_type ":" sha256(url | params | token);
\* the hash is kept as the hashed text
CacheKey(resource_type, params) == <<"flowpilot:", resource_type, ":", params>>

\* InMemoryCache.get / RedisCache.get: the entries under key that have not expired
CacheGet(store, key, t) == {c \in store : c.key = key /\ ~ (t > c.expiry)}

\* _cache_backend.set(key, value, ttl)
CacheSet(store, key, value, t, ttl) ==
    {c \in store : c.key # key} \cup {[key |-> key, value |-> value, expiry |-> t + ttl]}

\* GET /v1/delegations/validate as the delegation service answers it
ValidateBody(v) ==
    [delegation_chain |-> v.delegation_chain,
     delegated_actions |-> SortedList(v.delegated_actions)]

ValidateResponse(tbl, ord, owner_id, principal_id, workflow_id, t) ==
    ValidateBody(validate_delegation(tbl, ord, owner_id, principal_id, workflow_id, t))

\* _http_get_json_impl on the validate URL
HttpGetImpl(api, tbl, ord, owner_id, principal_id, workflow_id, t) ==
    IF api = "down"
    THEN [raised |-> "RuntimeError", data |-> EmptyDelegation]
    ELSE [raised |-> "",
          data |-> ValidateResponse(tbl, ord, owner_id, principal_id, workflow_id, t)]

\* _determine_ttl, for a URL given by the resource family its text names
CACHE_TTL_PERSONA == 300
CACHE_TTL_OPA_DECISION == 60
CACHE_TTL_DEFAULT == 300

determine_ttl(url) ==
    CASE url = "persona" -> CACHE_TTL_PERSONA
      [] url = "delegation" -> CACHE_TTL_DELEGATION
      [] url = "evaluate" -> CACHE_TTL_OPA_DECISION
      [] OTHER -> CACHE_TTL_DEFAULT

\* a wrapper that answers with an empty body when a cache operation fails
http_get_json_with_cache_EmptyOnFault(enabled, store, key, hit, impl, t, ttl, fault) ==
    IF ~ enabled
    THEN [raised |-> impl.raised, data |-> impl.data, store |-> store,
          lookup |-> IF impl.raised # "" THEN "failed" ELSE "fetched", requests |-> 1]
    ELSE IF fault # "none"
    THEN [raised |-> "", data |-> EmptyDelegation, store |-> store,
          lookup |-> "failed", requests |-> 0]
    ELSE IF hit # {}
    THEN [raised |-> "", data |-> (CHOOSE c \in hit : TRUE).value, store |-> store,
          lookup |-> "cached", requests |-> 0]
    ELSE IF impl.raised # ""
    THEN [raised |-> impl.raised, data |-> impl.data, store |-> store,
          lookup |-> "failed", requests |-> 1]
    ELSE [raised |-> "", data |-> impl.data,
          store |-> CacheSet(store, key, impl.data, t, ttl),
          lookup |-> "fetched", requests |-> 1]

\* http_get_json_with_cache for cache key key, the cache entries hit found
\* under it, and the outcome impl of the upstream call (made on a miss).
\* fault names the cache operation that fails during this call ("get",
\* "set" or "none"): a failing get finds nothing, a failing set stores
\* nothing, and neither exception leaves the wrapper.  requests counts the
\* calls of http_get_impl.
http_get_json_with_cache(enabled, store, key, hit, impl, t, ttl, fault) ==
    IF ~ enabled
    THEN [raised |-> impl.raised, data |-> impl.data, store |-> store,
          lookup |-> IF impl.raised # "" THEN "failed" ELSE "fetched", requests |-> 1]
    ELSE IF hit # {} /\ fault # "get"
    THEN [raised |-> "", data |-> (CHOOSE c \in hit : TRUE).value, store |-> store,
          lookup |-> "cached", requests |-> 0]
    ELSE IF impl.raised # ""
    THEN [raised |-> impl.raised, data |-> impl.data, store |-> store,
          lookup |-> "failed", requests |-> 1]
    ELSE [raised |-> "", data |-> impl.data,
          store |-> IF fault = "set" THEN store
                    ELSE CacheSet(store, key, impl.data, t, ttl),
          lookup |-> "fetched", requests |-> 1]

\* utils.http_get_json around the wrapper's outcome wrapped: an exception
\* leaving the wrapper, the upstream error included, is caught and
\* _http_get_json_impl is called directly; impl is the outcome of that call
http_get_json_fallback(wrapped, impl) ==
    IF wrapped.raised # ""
    THEN [raised |-> impl.raised, data |-> impl.data, store |-> wrapped.store,
          lookup |-> IF impl.raised # "" THEN "failed" ELSE "fetched",
          requests |-> wrapped.requests + 1]
    ELSE wrapped

\* http_get_json -> http_get_json_with_cache -> _http_get_json_impl on the
\* validate URL; gives the response, the cache after the call, how the lookup
\* went and the number of HTTP requests made
http_get_json(enabled, store, api, tbl, ord, owner_id, principal_id, workflow_id, t, fault) ==
    http_get_json_fallback(
        http_get_json_with_cache(enabled, store,
            CacheKey("delegation", <<owner_id, principal_id, workflow_id>>),
            CacheGet(store, CacheKey("delegation", <<owner_id, principal_id, workflow_id>>), t),
            HttpGetImpl(api, tbl, ord, owner_id, principal_id, workflow_id, t), t,
            determine_ttl("delegation"), fault),
        HttpGetImpl(api, tbl, ord, owner_id, principal_id, workflow_id, t))

\* compute_delegation_chain: the validate response, or RuntimeError
compute_delegation_chain(got) ==
    IF got.raised # "" THEN [raised |-> "RuntimeError", delegation |-> EmptyDelegation]
    ELSE [raised |-> "",
          delegation |-> [delegation_chain |-> got.data.delegation_chain,
                          delegated_actions |-> got.data.delegated_actions]]

\* outbound lookups of build_opa_resource: the owner's persona
ResourceCalls(rq) == IF OwnerFetched(rq) THEN <<"persona_owner">> ELSE <<>>

ContextResult(raised, delegation, persona_status, calls) ==
    [raised |-> raised, delegation |-> delegation, persona_status |-> persona_status,
     calls |-> calls]

\* a context step that lets a failed delegation lookup escape as RuntimeError
build_opa_context_Propagate(rq, env, got) ==
    IF rq.principal = NULL \/ ~ rq.persona_title
    THEN ContextResult("RuntimeError", EmptyDelegation, "", <<>>)
    ELSE IF fetch_persona_by_user_and_title(env) = "RuntimeError"
    THEN ContextResult("RuntimeError", EmptyDelegation, "", <<"persona_principal">>)
    ELSE LET status == IF fetch_persona_by_user_and_title(env) = "persona"
                       THEN "active" ELSE "not_found"
         IN  IF rq.owner # NULL /\ rq.principal # rq.owner
             THEN ContextResult(compute_delegation_chain(got).raised,
                                compute_delegation_chain(got).delegation, status,
                                <<"persona_principal", "delegation">>)
             ELSE ContextResult("", EmptyDelegation, status, <<"persona_principal">>)

\* build_opa_context: the principal, its persona (tagged not_found when the
\* registry has none), the delegation block; an exception of the delegation
\* lookup is swallowed
build_opa_context(rq, env, got) ==
    IF rq.principal = NULL \/ ~ rq.persona_title
    THEN ContextResult("RuntimeError", EmptyDelegation, "", <<>>)
    ELSE IF fetch_persona_by_user_and_title(env) = "RuntimeError"
    THEN ContextResult("RuntimeError", EmptyDelegation, "", <<"persona_principal">>)
    ELSE LET status == IF fetch_persona_by_user_and_title(env) = "persona"
                       THEN "active" ELSE "not_found"
         IN  IF rq.owner # NULL /\ rq.principal # rq.owner
             THEN ContextResult("",
                    IF compute_delegation_chain(got).raised # "" THEN EmptyDelegation
                    ELSE compute_delegation_chain(got).delegation,
                    status, <<"persona_principal", "delegation">>)
             ELSE ContextResult("", EmptyDelegation, status, <<"persona_principal">>)

\* the evaluation reaches compute_delegation_chain
ReachesDelegation(rq, env) ==
    /\ select_policy(rq.policy_hint).raised = ""
    /\ build_opa_subject(rq) = "ok"
    /\ build_opa_action(rq) = "ok"
    /\ build_opa_resource(rq, env) = "ok"
    /\ rq.principal # NULL /\ rq.persona_title
    /\ fetch_persona_by_user_and_title(env) # "RuntimeError"
    /\ rq.owner # NULL /\ rq.principal # rq.owner

\* EvaluateResult returned before the rule engine is reached; calls lists
\* the outbound lookups made so far (history)
EvaluateResult(decision, reason_codes, policy, calls) ==
    [raised |-> "", decision |-> decision, reason_codes |-> reason_codes,
     opa_called |-> FALSE, delegation |-> EmptyDelegation, persona_status |-> "",
     policy |-> policy, calls |-> calls]

EvaluateRaises(exception, opa_called, policy, context, calls) ==
    [raised |-> exception, decision |-> "", reason_codes |-> <<>>,
     opa_called |-> opa_called, delegation |-> context.delegation,
     persona_status |-> context.persona_status, policy |-> policy, calls |-> calls]

\* OpaClient.evaluate_allow and evaluate_reasons: http_post_json raises when the
\* rule engine is unreachable or answers outside 2xx
OpaClient(env, policy, context, calls) ==
    IF env.opa = "down"
    THEN EvaluateRaises("RuntimeError", TRUE, policy, context, calls \o <<"opa_allow">>)
    ELSE [raised |-> "",
          decision |-> IF env.opa = "allow" THEN "allow" ELSE "deny",
          reason_codes |-> IF env.opa = "allow" THEN <<>> ELSE <<"policy.denied">>,
          opa_called |-> TRUE, delegation |-> context.delegation,
          persona_status |-> context.persona_status, policy |-> policy,
          calls |-> calls \o <<"opa_allow", "opa_reasons">>]

\* evaluate_authorization_request
evaluate_authorization_request(rq, env, got) ==
    LET selected_policy == select_policy(rq.policy_hint)
        context == build_opa_context(rq, env, got)
    IN  IF selected_policy.raised = "ValueError"
        THEN EvaluateRaises("ValueError", FALSE, NULL,
                            ContextResult("", EmptyDelegation, "", <<>>), <<>>)
        ELSE IF build_opa_subject(rq) = "ValueError"
        THEN EvaluateResult("deny", <<"authz.invalid_subject">>,
                            selected_policy.policy, <<>>)
        ELSE IF build_opa_action(rq) = "ValueError"
        THEN EvaluateResult("deny", <<"authz.invalid_action">>,
                            selected_policy.policy, <<>>)
        ELSE IF build_opa_resource(rq, env) = "ValueError"
        THEN EvaluateResult("deny", <<"authz.missing_required_attributes">>,
                            selected_policy.policy, <<>>)
        ELSE IF build_opa_resource(rq, env) = "RuntimeError"
        THEN EvaluateResult("deny", <<"authz.persona_fetch_failed">>,
                            selected_policy.policy, ResourceCalls(rq))
        ELSE IF context.raised = "RuntimeError"
        THEN EvaluateResult("deny", <<"authz.system_error">>,
                            selected_policy.policy, ResourceCalls(rq) \o context.calls)
        ELSE OpaClient(env, selected_policy.policy, context,
                       ResourceCalls(rq) \o context.calls)

\* post_evaluate: only ValueError is caught; anything else is the server's 500
post_evaluate(result) ==
    IF result.raised = "ValueError" THEN 400
    ELSE IF result.raised # "" THEN 500
    ELSE 200

\* what the caller of evaluate_authorization_request gets
Answer(result) ==
    [raised |-> result.raised, decision |-> result.decision,
     reason_codes |-> result.reason_codes, delegation |-> result.delegation]

NoAnswer == Answer(EvaluateResult("", <<>>, NULL, <<>>))

\* no read was made
NoRead == [raised |-> "", data |-> EmptyDelegation, store |-> {}, lookup |-> "none",
           requests |-> 0]

NoAzRequest == AzRequest(NULL, FALSE, "", FALSE, NULL, NULL, FALSE, NULL)
NoAzEnv == AzEnv("", "", "")

\* record of one evaluation (history): request, collaborators, the result,
\* the HTTP status, whether a revoke of the pair had returned true before,
\* whether the store held a live path for the pair, how the delegation
\* lookup went (none, cached, fetched or failed), the cache operation that
\* failed during the evaluation, the HTTP requests the delegation lookup
\* made, and for an evaluation with a failing cache operation what the same
\* evaluation gives with CACHE_ENABLED off
Outcome(rq, env, result, http, after_revoke, store_valid, lookup, fault, requests, uncached) ==
    [rq |-> rq, env |-> env, raised |-> result.raised, decision |-> result.decision,
     reason_codes |-> result.reason_codes, opa_called |-> result.opa_called,
     delegation |-> result.delegation, persona_status |-> result.persona_status,
     policy |-> result.policy, calls |-> result.calls,
     owner |-> IF result.opa_called
               THEN build_opa_resource_owner(rq, env, result.policy) ELSE {},
     http |-> http,
     after_revoke |-> after_revoke, store_valid |-> store_valid, lookup |-> lookup,
     fault |-> fault, requests |-> requests, uncached |-> uncached]

NoOutcome ==
    Outcome(NoAzRequest, NoAzEnv, EvaluateResult("", <<>>, NULL, <<>>), 0, FALSE, FALSE,
            "none", "none", 0, NoAnswer)

\* requests that pass the validation of policy, subject, action and
\* resource: U2 or U1 acting on U1's workflow W1 under either manifest,
\* without an owner, without a principal id, without a persona title
PipelineRequests ==
    {AzRequest("travel", TRUE, "execute", TRUE, "U1", "U2", TRUE, "persona"),
     AzRequest("nursing", TRUE, "execute", TRUE, "U1", "U2", TRUE, "persona"),
     AzRequest("travel", TRUE, "execute", TRUE, "U1", "U1", TRUE, "persona"),
     AzRequest("travel", TRUE, "execute", TRUE, NULL, "U2", TRUE, NULL),
     AzRequest("travel", TRUE, "execute", TRUE, "U1", NULL, TRUE, "persona"),
     AzRequest("travel", TRUE, "execute", TRUE, "U1", "U2", FALSE, "persona")}

\* valid requests whose owner object names the owner's persona under
\* "persona_title" as the workflow service sends it, under "persona_id", or
\* not at all (the requests above name it under "persona")
OwnerKeyRequests ==
    {AzRequest("travel", TRUE, "execute", TRUE, "U1", "U2", TRUE, "persona_title"),
     AzRequest("nursing", TRUE, "execute", TRUE, "U1", "U1", TRUE, "persona_title"),
     AzRequest("travel", TRUE, "execute", TRUE, "U1", "U2", TRUE, "persona_id"),
     AzRequest("travel", TRUE, "execute", TRUE, "U1", "U2", TRUE, NULL)}

\* requests with the policy hint, the subject, the action or the resource
\* attributes wrong, or several of them
MalformedRequests ==
    {AzRequest(NULL, TRUE, "execute", TRUE, "U1", "U2", TRUE, "persona"),
     AzRequest("nopolicy", FALSE, "execute", TRUE, "U1", "U2", TRUE, "persona"),
     AzRequest("travel", FALSE, "execute", TRUE, "U1", "U2", TRUE, "persona"),
     AzRequest("travel", TRUE, "fly", TRUE, "U1", "U2", TRUE, "persona"),
     AzRequest("travel", TRUE, "execute", FALSE, "U1", "U2", TRUE, "persona"),
     AzRequest("travel", FALSE, "fly", FALSE, "U1", "U2", TRUE, "persona"),
     AzRequest("travel", TRUE, "fly", FALSE, "U1", "U2", TRUE, "persona")}

AzRequests == PipelineRequests \cup OwnerKeyRequests \cup MalformedRequests

\* the collaborators of SpecAuthz: all reachable with the rule engine saying
\* allow or deny, the registry without the persona, or one of the three
\* unreachable
AzEnvs ==
    {AzEnv("found", "up", "allow"),
     AzEnv("found", "up", "deny"),
     AzEnv("not_found", "up", "allow"),
     AzEnv("not_found", "up", "deny"),
     AzEnv("found", "up", "down"),
     AzEnv("found", "down", "allow"),
     AzEnv("down", "up", "allow")}

\* cache operations that may fail during an evaluation
CacheFaults == {"get", "set"}

\* evaluations during which a cache operation fails
FaultCases ==
    {AzRequest("travel", TRUE, "execute", TRUE, "U1", "U2", TRUE, "persona")}
        \X {AzEnv("found", "up", "allow"), AzEnv("found", "up", "deny"),
            AzEnv("found", "down", "allow")}
        \X CacheFaults

\* request, collaborators and failing cache operation of one evaluation: a
\* request of PipelineRequests meets every AzEnv; a request of
\* OwnerKeyRequests meets the registry with the persona, without it and
\* unreachable; a malformed one meets collaborators that are all reachable
\* and a rule engine that would allow
AzCases ==
    (PipelineRequests \X AzEnvs \X {"none"})
        \cup (OwnerKeyRequests
                \X {AzEnv("found", "up", "allow"), AzEnv("not_found", "up", "allow"),
                    AzEnv("down", "up", "allow")}
                \X {"none"})
        \cup (MalformedRequests \X {AzEnv("found", "up", "allow")} \X {"none"})
        \cup FaultCases

\* whether the store holds a live path for the pair of the request
StoreValid(rq, tbl, ord, t) ==
    /\ rq.owner # NULL
    /\ rq.principal # NULL
    /\ validate_delegation(tbl, ord, rq.owner, rq.principal, rq.workflow_id, t).valid

\* POST /v1/evaluate
AzEvaluate ==
    \E case \in AzCases, ord \in RowOrders(delegations) :
      \E got \in {http_get_json(cache_enabled, cache_store, case[2].delegation_api,
                                 delegations, ord, case[1].owner, case[1].principal,
                                 case[1].workflow_id, now, case[3])},
         direct \in {IF case[3] = "none" THEN NoRead
                     ELSE http_get_json(FALSE, {}, case[2].delegation_api,
                                        delegations, ord, case[1].owner,
                                        case[1].principal, case[1].workflow_id, now,
                                        "none")} :
        \E result \in {evaluate_authorization_request(case[1], case[2], got)},
           uncached \in {IF case[3] = "none" THEN NoAnswer
                        ELSE Answer(evaluate_authorization_request(case[1], case[2],
                                                                   direct))} :
            /\ az_out' = Outcome(case[1], case[2], result, post_evaluate(result),
                                 <<case[1].owner, case[1].principal,
                                   case[1].workflow_id>> \in revoked_ok,
                                 StoreValid(case[1], delegations, ord, now),
                                 IF ReachesDelegation(case[1], case[2])
                                 THEN got.lookup ELSE "none",
                                 case[3],
                                 IF ReachesDelegation(case[1], case[2])
                                 THEN got.requests ELSE 0,
                                 uncached)
            /\ cache_store' = IF ReachesDelegation(case[1], case[2]) THEN got.store
                              ELSE cache_store
            /\ UNCHANGED <<cache_enabled, revoked_ok>>

\* DELETE /v1/delegations at the delegation service
AzRevoke ==
    /\ Revoke("h1", "U1", "U2", "W1")
    /\ revoked_ok' = IF last_call'["h1"].revoked
                     THEN revoked_ok \cup {<<"U1", "U2", "W1">>}
                     ELSE revoked_ok
    /\ UNCHANGED <<cache_enabled, cache_store, az_out>>

\* the clock moves past one cache lifetime: an entry is served up to its
\* expiry time and dropped after it
AzTick ==
    /\ now + CACHE_TTL_DELEGATION + 1 <= MaxClock
    /\ now' = now + CACHE_TTL_DELEGATION + 1
    /\ UNCHANGED <<backend, delegations, pc, req, existing_row, pre, last_call>>
    /\ UNCHANGED authzVars

AuthzIdle ==
    /\ cache_enabled = FALSE
    /\ cache_store = {}
    /\ az_out = NoOutcome
    /\ revoked_ok = {}

NoQuery == [op |-> "none", p |-> "", d |-> "", w |-> NULL, max_depth |-> 0,
            include_expired |-> FALSE]
NoResult == [path |-> NoPath, rows |-> <<>>]

QueryIdle ==
    /\ q_args = NoQuery
    /\ q_result = NoResult

----------------------------------------------------------------------------
(* The HTTP helpers of the shared library and their cache *)

\* URLs, named by the word of the URL text the helpers look for
Urls == {"persona", "delegation", "workflow", "evaluate"}

CacheBackends == {"memory", "redis"}

\* _generate_cache_key: the resource type of a URL
ResourceType(url) ==
    CASE url = "persona" -> "persona"
      [] url = "delegation" -> "delegation"
      [] url = "workflow" -> "workflow"
      [] url = "evaluate" -> "authz"
      [] OTHER -> "unknown"

\* RedisCache.get: setex drops the entry once ttl seconds have passed;
\* InMemoryCache.get serves it up to and including its expiry time
BackendGet(be, store, key, t) ==
    IF be = "redis" THEN {c \in store : c.key = key /\ t < c.expiry}
    ELSE CacheGet(store, key, t)

\* invalidate_cache_for_resource: f"flowpilot:*{resource_type}*", as the
\* pieces of the text
InvalidationPattern(resource_type) == <<"flowpilot:", "*", resource_type, "*">>

\* pattern.rstrip("*")
RECURSIVE RStripStar(_)
RStripStar(pattern) ==
    IF pattern # <<>> /\ pattern[Len(pattern)] = "*"
    THEN RStripStar(SubSeq(pattern, 1, Len(pattern) - 1))
    ELSE pattern

\* str.startswith
StartsWith(key, prefix) ==
    Len(prefix) <= Len(key) /\ SubSeq(key, 1, Len(prefix)) = prefix

\* Redis SCAN MATCH: glob matching where * stands for any run of text
RECURSIVE GlobMatch(_, _)
GlobMatch(pattern, key) ==
    IF pattern = <<>> THEN key = <<>>
    ELSE IF pattern[1] = "*"
    THEN GlobMatch(Tail(pattern), key) \/ (key # <<>> /\ GlobMatch(pattern, Tail(key)))
    ELSE key # <<>> /\ key[1] = pattern[1] /\ GlobMatch(Tail(pattern), Tail(key))

\* InMemoryCache.delete_pattern and RedisCache.delete_pattern
delete_pattern(be, store, pattern) ==
    IF be = "redis" THEN {c \in store : ~ GlobMatch(pattern, c.key)}
    ELSE {c \in store : ~ StartsWith(c.key, RStripStar(pattern))}

\* invalidate_cache_for_resource; fault: the backend raises, which is logged
invalidate_cache_for_resource(enabled, be, store, resource_type, fault) ==
    IF ~ enabled THEN store
    ELSE IF fault THEN store
    ELSE delete_pattern(be, store, InvalidationPattern(resource_type))

\* http_post_json: the resource type it invalidates after a 2xx answer
PostInvalidates(url) ==
    CASE url = "delegation" -> "delegation"
      [] url = "persona" -> "persona"
      [] url = "workflow" -> "authz"
      [] OTHER -> NULL

\* http_post_json; ok: the upstream service answers 2xx with JSON
http_post_json(enabled, be, store, url, ok, fault) ==
    IF ~ ok THEN [raised |-> "RuntimeError", store |-> store]
    ELSE [raised |-> "",
          store |-> IF PostInvalidates(url) = NULL THEN store
                    ELSE invalidate_cache_for_resource(enabled, be, store,
                                                       PostInvalidates(url), fault)]

\* _http_get_json_impl on a URL whose resource upstream has version v
LibGetImpl(up, v) ==
    IF up THEN [raised |-> "", data |-> v] ELSE [raised |-> "RuntimeError", data |-> NULL]

\* record of one call of the helpers (history)
LibCall(op, url, got, fault) ==
    [op |-> op, url |-> url, raised |-> got.raised, data |-> got.data,
     lookup |-> got.lookup, requests |-> got.requests, fault |-> fault]

NoLibCall ==
    LibCall("none", "", [raised |-> "", data |-> NULL, lookup |-> "none", requests |-> 0],
            "none")

LibIdle ==
    /\ cache_backend = "memory"
    /\ upstream = [u \in Urls |-> 0]
    /\ cache_out = NoLibCall

----------------------------------------------------------------------------
(* get_service_token of the security modules *)

\* seconds before expires_at from which a cached token is no longer used
REFRESH_MARGIN == 60

\* lifetimes of the tokens: expires_in of the Keycloak answer (300 when the
\* answer has none), 3600 for a Google identity token
ExpiresIn == {60, 300, 3600}

\* tokens are numbered as the identity provider issues them; 0: no token
NoToken == [access_token |-> 0, expires_at |-> 0]

\* the cached token is still used at time t
CachedTokenValid(cached, t) ==
    cached # NoToken /\ t < cached.expires_at - REFRESH_MARGIN

\* what one call returned (history): the token, its expiry, the time
TokenReturned(token, t) ==
    [access_token |-> token.access_token, expires_at |-> token.expires_at, at |-> t]

\* get_service_token up to the token request: a valid cached token is
\* returned, otherwise the request for a new one goes out
TokenCall(h) ==
    /\ tk_pc[h] = "idle"
    /\ IF CachedTokenValid(service_token_cache, now)
       THEN /\ tk_out' = [tk_out EXCEPT ![h] = TokenReturned(service_token_cache, now)]
            /\ UNCHANGED tk_pc
       ELSE /\ tk_pc' = [tk_pc EXCEPT ![h] = "minting"]
            /\ UNCHANGED tk_out
    /\ UNCHANGED <<service_token_cache, minted, now>>

\* get_service_token from the answer of the identity provider on: a token
\* is cached and returned; a failure returns None
TokenAnswer(h) ==
    /\ tk_pc[h] = "minting"
    /\ tk_pc' = [tk_pc EXCEPT ![h] = "idle"]
    /\ \/ \E expires_in \in ExpiresIn :
            /\ minted < MaxMints
            /\ minted' = minted + 1
            /\ service_token_cache' = [access_token |-> minted + 1,
                                       expires_at |-> now + expires_in]
            /\ tk_out' = [tk_out EXCEPT ![h] =
                              TokenReturned(service_token_cache', now)]
       \/ /\ tk_out' = [tk_out EXCEPT ![h] = TokenReturned(NoToken, now)]
          /\ UNCHANGED <<service_token_cache, minted>>
    /\ UNCHANGED now

TokenIdle ==
    /\ service_token_cache = NoToken
    /\ tk_pc = [h \in Procs |-> "idle"]
    /\ tk_out = [h \in Procs |-> TokenReturned(NoToken, 0)]
    /\ minted = 0

----------------------------------------------------------------------------
(* Persona registry: persona_main.py -> persona_core.PersonaService ->      *)
(* PersonaDB (personadb_sqlite.py or personadb_firestore.py, resolved at    *)
(* build time), with the attribute processing of persona_config.py.         *)
(*                                                                          *)
(* A dict over a fixed set of keys is a function whose value ABSENT means   *)
(* "key not in the dict" and NULL means None.  Python values are written as *)
(* their repr.                                                              *)

ABSENT == "ABSENT"

IntValues  == {"0", "7", "500"}
BoolValues == {"True", "False"}
StrValues  == {"'x'"}

\* the Python type of a value, in the manifest's type names
TypeOf(v) ==
    CASE v \in IntValues  -> "integer"
      [] v \in BoolValues -> "boolean"
      [] v \in StrValues  -> "string"
      [] OTHER            -> "none"

PersonaBackends == {"sqlite", "firestore"}

ALLOWED_PERSONA_TITLES == {"traveler", "travel-agent"}

\* the cap the process was started with
MAX_PERSONAS_PER_USER == 2

\* the attributes of the policy manifest the process loaded; "required" is
\* "true" / "false" when the manifest gives the flag and ABSENT when it does not
ManifestAttributes ==
    { [name |-> "autobook_price",     type |-> "integer", source |-> "persona",
       required |-> "true",  default |-> NULL],
      [name |-> "consent",            type |-> "boolean", source |-> "persona",
       required |-> ABSENT,  default |-> "False"],
      [name |-> "autobook_leadtime",  type |-> "integer", source |-> "persona",
       required |-> ABSENT,  default |-> NULL],
      [name |-> "autobook_risklevel", type |-> "integer", source |-> "persona",
       required |-> "false", default |-> NULL],
      [name |-> "departure_date",     type |-> "string",  source |-> "resource",
       required |-> ABSENT,  default |-> NULL],
      [name |-> "currency",           type |-> "string",  source |-> "resource",
       required |-> ABSENT,  default |-> "'x'"] }

AttrDef(name) == CHOOSE a \in ManifestAttributes : a.name = name

PersonaAttrNames == {a.name : a \in {d \in ManifestAttributes : d.source = "persona"}}

ResourceAttrNames == {a.name : a \in {d \in ManifestAttributes : d.source = "resource"}}

\* policy_manifest.load_policy_manifest: the PolicyAttribute built from one
\* entry of the manifest's attributes list
load_policy_manifest(attr_def) ==
    [name     |-> attr_def.name,
     type     |-> attr_def.type,
     source   |-> attr_def.source,
     default  |-> attr_def.default,
     required |-> IF attr_def.required # ABSENT
                  THEN attr_def.required = "true"
                  ELSE attr_def.default = NULL]

\* authz_core.normalize_attributes, steps 1 and 2: the names it reports as
\* missing (it raises ValueError when the set is not empty)
normalize_attributes_missing(attributes_dict, names) ==
    LET withDefault(n) ==
            IF attributes_dict[n] \in {ABSENT, NULL}
               /\ load_policy_manifest(AttrDef(n)).default # NULL
            THEN load_policy_manifest(AttrDef(n)).default
            ELSE attributes_dict[n]
    IN {n \in names : /\ load_policy_manifest(AttrDef(n)).required
                      /\ withDefault(n) \in {ABSENT, NULL}}

\* persona_config.get_persona_attribute_schema
get_persona_attribute_schema ==
    [n \in PersonaAttrNames |->
        [type     |-> AttrDef(n).type,
         required |-> IF AttrDef(n).required = ABSENT
                      THEN FALSE
                      ELSE AttrDef(n).required = "true",
         default  |-> AttrDef(n).default]]

\* persona_config.coerce_attribute_value
coerce_attribute_value(attr_value, attr_type) ==
    CASE attr_type = "integer" ->
            IF attr_value \in IntValues THEN attr_value ELSE "0"
      [] attr_type = "boolean" ->
            IF attr_value \in BoolValues THEN attr_value ELSE "False"
      [] OTHER ->
            IF attr_value \in StrValues THEN attr_value ELSE "'x'"

\* persona_config.apply_attribute_defaults
apply_attribute_defaults(attributes_dict, schema) ==
    [n \in DOMAIN attributes_dict |->
        IF /\ n \in DOMAIN schema
           /\ attributes_dict[n] \in {ABSENT, NULL}
           /\ schema[n].default # NULL
        THEN schema[n].default
        ELSE attributes_dict[n]]

\* a validation that takes an attribute for required only when it has a default
validate_required_attributes_DefaultOnly(attributes_dict, schema) ==
    {n \in DOMAIN schema : /\ schema[n].required
                           /\ schema[n].default # NULL
                           /\ attributes_dict[n] \in {ABSENT, NULL}}

\* persona_config.validate_required_attributes: the names of its error message
\* (the empty set when it returns None)
validate_required_attributes(attributes_dict, schema) ==
    {n \in DOMAIN schema : /\ schema[n].required
                           /\ attributes_dict[n] \in {ABSENT, NULL}}

\* persona_config.apply_defaults_and_coerce_attributes: (processed, error)
apply_defaults_and_coerce_attributes(attributes_dict) ==
    LET schema  == get_persona_attribute_schema
        result  == apply_attribute_defaults(attributes_dict, schema)
        missing == validate_required_attributes(result, schema)
    IN IF missing # {}
       THEN [processed |-> [n \in DOMAIN attributes_dict |-> ABSENT],
             error |-> missing]
       ELSE [processed |->
                [n \in DOMAIN attributes_dict |->
                    IF n \in DOMAIN schema /\ result[n] # ABSENT
                    THEN coerce_attribute_value(result[n], schema[n].type)
                    ELSE result[n]],
             error |-> {}]

\* the keys a request body may carry besides the standard ones
CustomKeys == PersonaAttrNames \cup {"circle"}

\* the attribute columns of the personas table and their column defaults
SqliteColumns ==
    [consent |-> "False", autobook_price |-> "0",
     autobook_leadtime |-> "0", autobook_risklevel |-> "0"]

\* the attribute fields of persona_main.PersonaResponse
PersonaResponseAttrs ==
    {"consent", "autobook_price", "autobook_leadtime", "autobook_risklevel"}

NoPersona ==
    [persona_id |-> <<>>, user_sub |-> NULL, title |-> NULL, circle |-> NULL,
     attrs |-> [n \in PersonaAttrNames |-> ABSENT]]

PersonaById(store, persona_id) ==
    IF \E p \in store : p.persona_id = persona_id
    THEN CHOOSE p \in store : p.persona_id = persona_id
    ELSE NoPersona

\* list_personas(user_sub) of either backend
list_personas(store, user_sub) == {p \in store : p.user_sub = user_sub}

\* the personas holding one (user_sub, title, circle)
PersonasOf(store, user_sub, title, circle) ==
    {p \in store : p.user_sub = user_sub /\ p.title = title /\ p.circle = circle}

DbResult(raised, error, store, persona) ==
    [raised |-> raised, error |-> error, store |-> store, persona |-> persona]

\* personadb_sqlite.PersonaDB.create_persona
sqlite_create_persona(store, user_sub, title, kwargs) ==
    LET circle     == kwargs["circle"]
        persona_id == <<user_sub, title, circle>>
        row == [persona_id |-> persona_id, user_sub |-> user_sub,
                title |-> title, circle |-> circle,
                attrs |-> [n \in PersonaAttrNames |->
                            IF n \notin DOMAIN SqliteColumns THEN ABSENT
                            ELSE IF kwargs[n] = ABSENT THEN SqliteColumns[n]
                            ELSE kwargs[n]]]
    IN IF circle = ABSENT
       THEN DbResult("TypeError", "missing_argument", store, NoPersona)
       ELSE IF PersonaById(store, persona_id) # NoPersona
       THEN DbResult("ValueError", "already_exists", store, NoPersona)
       ELSE IF PersonasOf(store, user_sub, title, circle) # {}
       THEN DbResult("IntegrityError", "unique_constraint", store, NoPersona)
       ELSE DbResult("", "", store \cup {row}, row)

\* personadb_firestore.PersonaDB.create_persona
firestore_create_persona(store, user_sub, title, kwargs) ==
    LET persona_id == <<user_sub, title>>
        doc == [persona_id |-> persona_id, user_sub |-> user_sub,
                title |-> title, circle |-> kwargs["circle"],
                attrs |-> [n \in PersonaAttrNames |-> kwargs[n]]]
    IN IF PersonaById(store, persona_id) # NoPersona
       THEN DbResult("ValueError", "already_exists", store, NoPersona)
       ELSE DbResult("", "", store \cup {doc}, doc)

personadb_create_persona(be, store, user_sub, title, kwargs) ==
    IF be = "sqlite"
    THEN sqlite_create_persona(store, user_sub, title, kwargs)
    ELSE firestore_create_persona(store, user_sub, title, kwargs)

\* personadb_sqlite.PersonaDB.update_persona; kwargs holds the attributes only
sqlite_update_persona(store, persona_id, title, kwargs) ==
    LET old == PersonaById(store, persona_id)
        new == [old EXCEPT
                  !.title = IF title # NULL THEN title ELSE @,
                  !.attrs = [n \in PersonaAttrNames |->
                               IF kwargs[n] \notin {ABSENT, NULL}
                               THEN kwargs[n] ELSE old.attrs[n]]]
    IN IF old = NoPersona
       THEN DbResult("", "", store, NoPersona)
       ELSE IF PersonaAttrNames \ DOMAIN SqliteColumns # {}
       THEN DbResult("TypeError", "unexpected_argument", store, NoPersona)
       ELSE IF PersonasOf(store \ {old}, new.user_sub, new.title, new.circle) # {}
       THEN DbResult("IntegrityError", "unique_constraint", store, NoPersona)
       ELSE DbResult("", "", (store \ {old}) \cup {new}, new)

\* personadb_firestore.PersonaDB.update_persona
firestore_update_persona(store, persona_id, title, kwargs) ==
    LET old == PersonaById(store, persona_id)
        new == [old EXCEPT
                  !.title = IF title # NULL THEN title ELSE @,
                  !.attrs = [n \in PersonaAttrNames |->
                               IF kwargs[n] \notin {ABSENT, NULL}
                               THEN kwargs[n] ELSE old.attrs[n]]]
    IN IF old = NoPersona
       THEN DbResult("", "", store, NoPersona)
       ELSE DbResult("", "", (store \ {old}) \cup {new}, new)

personadb_update_persona(be, store, persona_id, title, kwargs) ==
    IF be = "sqlite"
    THEN sqlite_update_persona(store, persona_id, title, kwargs)
    ELSE firestore_update_persona(store, persona_id, title, kwargs)

\* PersonaService.create_persona up to its call of the database: the checks
\* and the attribute processing
create_persona_checks(store, user_sub, title, custom_attributes) ==
    LET done == apply_defaults_and_coerce_attributes(custom_attributes)
    IN IF title \notin ALLOWED_PERSONA_TITLES
       THEN [raised |-> "ValueError", error |-> "invalid_title",
             kwargs |-> custom_attributes]
       ELSE IF Cardinality(list_personas(store, user_sub)) >= MAX_PERSONAS_PER_USER
       THEN [raised |-> "ValueError", error |-> "max_personas",
             kwargs |-> custom_attributes]
       ELSE IF done.error # {}
       THEN [raised |-> "ValueError", error |-> "missing_required",
             kwargs |-> custom_attributes]
       ELSE [raised |-> "", error |-> "", kwargs |-> done.processed]

\* PersonaService.create_persona
create_persona(be, store, user_sub, title, custom_attributes) ==
    LET checked == create_persona_checks(store, user_sub, title, custom_attributes)
    IN IF checked.raised # ""
       THEN DbResult(checked.raised, checked.error, store, NoPersona)
       ELSE personadb_create_persona(be, store, user_sub, title, checked.kwargs)

\* PersonaService.get_persona: "" or the error it raises
get_persona_error(store, persona_id, user_sub) ==
    IF PersonaById(store, persona_id) = NoPersona THEN "not_found"
    ELSE IF PersonaById(store, persona_id).user_sub # user_sub THEN "access_denied"
    ELSE ""

\* a merge that starts from nothing instead of the stored values
merged_attributes_SuppliedOnly(existing_persona, custom_attributes) ==
    [n \in PersonaAttrNames |->
        IF custom_attributes[n] # ABSENT THEN custom_attributes[n] ELSE NULL]

\* PersonaService.update_persona: the attributes it hands to the processing
merged_attributes(existing_persona, custom_attributes) ==
    [n \in PersonaAttrNames |->
        IF custom_attributes[n] # ABSENT THEN custom_attributes[n]
        ELSE IF existing_persona.attrs[n] = ABSENT THEN NULL
        ELSE existing_persona.attrs[n]]

\* PersonaService.update_persona
update_persona(be, store, persona_id, user_sub, title, custom_attributes) ==
    LET existing_persona == PersonaById(store, persona_id)
        done == apply_defaults_and_coerce_attributes(
                    merged_attributes(existing_persona, custom_attributes))
        updated == personadb_update_persona(be, store, persona_id, title, done.processed)
    IN IF get_persona_error(store, persona_id, user_sub) # ""
       THEN DbResult("ValueError", get_persona_error(store, persona_id, user_sub),
                     store, NoPersona)
       ELSE IF title # NULL /\ title \notin ALLOWED_PERSONA_TITLES
       THEN DbResult("ValueError", "invalid_title", store, NoPersona)
       ELSE IF done.error # {}
       THEN DbResult("ValueError", "missing_required", store, NoPersona)
       ELSE IF updated.raised = "" /\ updated.persona = NoPersona
       THEN DbResult("ValueError", "update_failed", store, NoPersona)
       ELSE updated

\* PersonaService.delete_persona
delete_persona(store, persona_id, user_sub) ==
    IF get_persona_error(store, persona_id, user_sub) # ""
    THEN DbResult("ValueError", get_persona_error(store, persona_id, user_sub),
                  store, NoPersona)
    ELSE DbResult("", "", store \ {PersonaById(store, persona_id)}, NoPersona)

\* the status a handler of persona_main answers with: ValueError is a 400, any
\* other exception a 500, and a persona PersonaResponse cannot hold is a 500
PersonaHttp(op, result) ==
    IF result.raised = "ValueError" THEN 400
    ELSE IF result.raised # "" THEN 500
    ELSE IF op = "delete" THEN 204
    ELSE IF \E n \in PersonaResponseAttrs : result.persona.attrs[n] = ABSENT THEN 500
    ELSE IF op = "create" THEN 201
    ELSE 200

\* the custom attributes of a request body
Custom(circle, price, consent, leadtime, risklevel) ==
    [circle |-> circle, autobook_price |-> price, consent |-> consent,
     autobook_leadtime |-> leadtime, autobook_risklevel |-> risklevel]

NoCustom == Custom(ABSENT, ABSENT, ABSENT, ABSENT, ABSENT)

\* the call of the persona API that completed last
PsCall(op, h, title, persona_id, custom, store, result) ==
    [op        |-> op,
     h         |-> h,
     title     |-> title,
     persona_id |-> persona_id,
     custom    |-> custom,
     raised    |-> result.raised,
     error     |-> result.error,
     http      |-> PersonaHttp(op, result),
     changed   |-> result.store # store,
     existed   |-> op = "create" /\ PersonasOf(store, "U1", title, custom["circle"]) # {},
     count     |-> Cardinality(list_personas(store, "U1")),
     before    |-> PersonaById(store, persona_id),
     after     |-> result.persona]

NoPsCall ==
    [op |-> "none", h |-> "h1", title |-> NULL, persona_id |-> <<>>, custom |-> NoCustom,
     raised |-> "", error |-> "", http |-> 0, changed |-> FALSE, existed |-> FALSE,
     count |-> 0, before |-> NoPersona, after |-> NoPersona]

NoPsReq == [title |-> NULL, custom |-> NoCustom, kwargs |-> NoCustom]

PersonaIdle ==
    /\ persona_backend = "sqlite"
    /\ personas = {}
    /\ ps_pc = [h \in Procs |-> "idle"]
    /\ ps_req = [h \in Procs |-> NoPsReq]
    /\ ps_out = NoPsCall

----------------------------------------------------------------------------
(* The domain service's workflow items (domain_services_core.py) *)

WorkflowIds == {"w1"}
ItemIds == {"i1", "i2"}

\* item_dict of create_workflow_from_template
NewItem == [status |-> "planned", last_decision |-> NULL, last_reason_codes |-> <<>>]

\* self._workflows = {}
NoWorkflows ==
    [w \in WorkflowIds |-> [created |-> FALSE, items |-> [i \in ItemIds |-> NewItem]]]

\* create_workflow_from_template: every item of the template starts planned
create_workflow_from_template(store, workflow_id) ==
    [store EXCEPT ![workflow_id] = [created |-> TRUE,
                                    items |-> [i \in ItemIds |-> NewItem]]]

\* what _call_authz_for_workflow gives: the decision payload of the
\* authorization engine, or a RuntimeError of http_post_json
DecisionPayload(raised, decision, reason_codes) ==
    [raised |-> raised, decision |-> decision, reason_codes |-> reason_codes]

DecisionPayloads ==
    { DecisionPayload(FALSE, "allow", <<>>),
      DecisionPayload(FALSE, "deny", <<"policy.denied">>),
      DecisionPayload(FALSE, ABSENT, <<>>),
      DecisionPayload(TRUE, ABSENT, <<>>) }

\* a ladder that stops at rebooked
updated_status_Ladder(current_status) ==
    IF current_status = "planned" THEN "booked" ELSE "rebooked"

\* if current_status == "booked": "rebooked" else: "booked"
updated_status(current_status) ==
    IF current_status = "booked" THEN "rebooked" ELSE "booked"

ServiceResult(raised, http, store, status) ==
    [raised |-> raised, http |-> http, store |-> store, status |-> status]

\* FlowPilotService.execute_workflow_item and the status the handler
\* handle_post_execute_workflow_item answers with
service_execute_workflow_item(store, workflow_id, workflow_item_id, payload, dry_run) ==
    IF workflow_id \notin WorkflowIds \/ workflow_item_id \notin ItemIds
    THEN ServiceResult("KeyError", 404, store, "")
    ELSE IF ~ store[workflow_id].created
    THEN ServiceResult("KeyError", 404, store, "")
    ELSE IF payload.raised
    THEN ServiceResult("RuntimeError", 500, store, "")
    ELSE
      LET decision == IF payload.decision = ABSENT THEN "deny" ELSE payload.decision
          item == store[workflow_id].items[workflow_item_id]
      IN  IF decision # "allow"
          THEN ServiceResult("PolicyDeniedError", 403,
                 [store EXCEPT ![workflow_id].items[workflow_item_id] =
                     [item EXCEPT !.last_decision = decision,
                                  !.last_reason_codes = payload.reason_codes]],
                 "")
          ELSE
            LET status == IF dry_run THEN item.status ELSE updated_status(item.status)
            IN  ServiceResult("none", 200,
                  [store EXCEPT ![workflow_id].items[workflow_item_id] =
                      [status |-> status, last_decision |-> "allow",
                       last_reason_codes |-> payload.reason_codes]],
                  IF dry_run THEN "simulated" ELSE status)

DsCall(op, workflow_id, item_id, dry_run, payload, store, result) ==
    [op |-> op, workflow_id |-> workflow_id, item_id |-> item_id, dry_run |-> dry_run,
     decision |-> payload.decision, raised |-> result.raised, http |-> result.http,
     status |-> result.status,
     before |-> IF workflow_id \in WorkflowIds /\ item_id \in ItemIds
                THEN store[workflow_id].items[item_id].status ELSE "",
     after |-> IF workflow_id \in WorkflowIds /\ item_id \in ItemIds
               THEN result.store[workflow_id].items[item_id].status ELSE ""]

NoDsCall ==
    [op |-> "none", workflow_id |-> "", item_id |-> "", dry_run |-> FALSE,
     decision |-> ABSENT, raised |-> "none", http |-> 0, status |-> "",
     before |-> "", after |-> ""]

----------------------------------------------------------------------------
(* The agent runner (ai_agent_core.py, ai_agent_main.py) *)

MaxItems == 2

\* a response body as the parsers of the runner see it: whether the text
\* starts with "{", whether json.loads gives an object, whether it is longer
\* than the 800 characters truncate_text keeps, the type of its "detail",
\* the reason_codes of a detail object, the codes a message lists as
\* reason_codes=[...], and whether the message holds "***REMOVED***.deny"
Body(brace, parses, long, detail, reason_codes, listed, removed_deny) ==
    [brace |-> brace, parses |-> parses, long |-> long, detail |-> detail,
     reason_codes |-> reason_codes, listed |-> listed, removed_deny |-> removed_deny]

NoBody == Body(FALSE, FALSE, FALSE, "none", <<>>, <<>>, FALSE)
JsonObject == Body(TRUE, TRUE, FALSE, "none", <<>>, <<>>, FALSE)
DenyDetailObject == Body(TRUE, TRUE, FALSE, "dict", <<"policy.denied">>, <<>>, FALSE)
DenyDetailObjectLong == Body(TRUE, TRUE, TRUE, "dict", <<"policy.denied">>, <<>>, FALSE)
DenyDetailString == Body(TRUE, TRUE, FALSE, "str", <<>>, <<"policy.denied">>, FALSE)
DenyPlainText == Body(FALSE, FALSE, FALSE, "none", <<>>, <<>>, TRUE)
ErrorDetailString == Body(TRUE, TRUE, FALSE, "str", <<>>, <<>>, FALSE)
HtmlPage == Body(FALSE, FALSE, FALSE, "none", <<>>, <<>>, FALSE)

\* stripped[:max_length] + "…": a text cut in the middle is no JSON any more
truncate_text(body) ==
    IF body.long THEN [body EXCEPT !.long = FALSE, !.parses = FALSE] ELSE body

\* what the network gives to one request: a response, or no response at all
HttpResponse(net, status, body, items) ==
    [net |-> net, status |-> status, body |-> body, items |-> items]

HttpOutcome(raised, http, body) == [raised |-> raised, http |-> http, body |-> body]

\* utils.http_post_json: requests.post is not guarded, a non-2xx status or a
\* body that is no JSON raises RuntimeError("... http=<status> body=<text>")
http_post_json_outcome(resp) ==
    IF resp.net = "error" THEN HttpOutcome("ConnectionError", 0, NoBody)
    ELSE IF resp.status < 200 \/ resp.status >= 300
    THEN HttpOutcome("RuntimeError", resp.status, truncate_text(resp.body))
    ELSE IF ~ (resp.body.brace /\ resp.body.parses)
    THEN HttpOutcome("RuntimeError", resp.status, truncate_text(resp.body))
    ELSE HttpOutcome("none", resp.status, resp.body)

\* utils._http_get_json_impl: requests.RequestException becomes
\* RuntimeError("HTTP GET failed: url=...") without http= and body=
http_get_json_outcome(resp) ==
    IF resp.net = "error" THEN HttpOutcome("RuntimeError", 0, NoBody)
    ELSE IF resp.status < 200 \/ resp.status >= 300
    THEN HttpOutcome("RuntimeError", resp.status, truncate_text(resp.body))
    ELSE IF ~ (resp.body.brace /\ resp.body.parses)
    THEN HttpOutcome("RuntimeError", resp.status, truncate_text(resp.body))
    ELSE HttpOutcome("none", resp.status, resp.body)

\* post_execute_workflow_item: (status_code, response_json, response_text);
\* json is TRUE when response_json is a dict, FALSE when it is None
post_execute_workflow_item(resp) ==
    LET r == http_post_json_outcome(resp) IN
    IF r.raised = "none"
    THEN [raised |-> "none", status_code |-> 200, json |-> TRUE, text |-> r.body]
    ELSE IF r.raised = "RuntimeError"
    THEN [raised |-> "none", status_code |-> r.http,
          json |-> r.body.brace /\ r.body.parses, text |-> r.body]
    ELSE [raised |-> r.raised, status_code |-> 0, json |-> FALSE, text |-> NoBody]

\* parse_policy_deny_from_body: json.loads of a text that starts with "{" is
\* not guarded; the codes are those listed after "reason_codes=", else the
\* "***REMOVED***.deny" of the message
parse_policy_deny_from_body(response_text) ==
    IF response_text.brace /\ ~ response_text.parses
    THEN [raised |-> "ValueError", reason_codes |-> <<>>]
    ELSE IF response_text.listed # <<>>
    THEN [raised |-> "none", reason_codes |-> response_text.listed]
    ELSE IF response_text.removed_deny
    THEN [raised |-> "none", reason_codes |-> <<"***REMOVED***.deny">>]
    ELSE [raised |-> "none", reason_codes |-> <<>>]

ItemOutcome(raised, http_status, status, outcome, reason_codes) ==
    [raised |-> raised, http_status |-> http_status, status |-> status,
     outcome |-> outcome, reason_codes |-> reason_codes]

\* a classification that takes every refusal of the service for a failure
execute_workflow_item_DenyIsError(resp) ==
    LET p == post_execute_workflow_item(resp) IN
    IF p.raised # "none" THEN ItemOutcome(p.raised, 0, "", "", <<>>)
    ELSE IF 200 <= p.status_code /\ p.status_code < 300
    THEN ItemOutcome("none", p.status_code, "completed", "allow", <<>>)
    ELSE ItemOutcome("none", p.status_code, "error", "deny",
                     <<"agent_runner.item_execution_failed">>)

\* execute_workflow_item of the runner: one POST to the execute endpoint of
\* the domain service and the classification of its answer
execute_workflow_item(resp) ==
    LET p == post_execute_workflow_item(resp) IN
    IF p.raised # "none" THEN ItemOutcome(p.raised, 0, "", "", <<>>)
    ELSE IF 200 <= p.status_code /\ p.status_code < 300
    THEN ItemOutcome("none", p.status_code, "completed", "allow", <<>>)
    ELSE IF p.status_code = 403
    THEN IF p.json
         THEN IF p.text.detail = "dict"
              THEN ItemOutcome("none", 403, "completed", "deny", p.text.reason_codes)
              ELSE IF p.text.detail = "str"
              THEN LET d == parse_policy_deny_from_body(p.text)
                   IN  IF d.raised # "none" THEN ItemOutcome(d.raised, 0, "", "", <<>>)
                       ELSE ItemOutcome("none", 403, "completed", "deny", d.reason_codes)
              ELSE ItemOutcome("none", 403, "completed", "deny", <<>>)
         ELSE LET d == parse_policy_deny_from_body(p.text)
              IN  IF d.raised # "none" THEN ItemOutcome(d.raised, 0, "", "", <<>>)
                  ELSE ItemOutcome("none", 403, "completed", "deny", d.reason_codes)
    ELSE ItemOutcome("none", p.status_code, "error", "deny",
                     <<"agent_runner.item_execution_failed">>)

\* list_workflow_items: the ids of the entries of payload["items"] that have
\* one, in the order of the payload
RECURSIVE ItemsWithId(_)
ItemsWithId(items_raw) ==
    IF items_raw = <<>> THEN <<>>
    ELSE IF Head(items_raw) = NULL THEN ItemsWithId(Tail(items_raw))
    ELSE <<Head(items_raw)>> \o ItemsWithId(Tail(items_raw))

list_workflow_items(resp) ==
    LET r == http_get_json_outcome(resp) IN
    IF r.raised # "none"
    THEN [raised |-> r.raised, http |-> r.http, body |-> r.body, items |-> <<>>]
    ELSE [raised |-> "none", http |-> r.http, body |-> r.body,
          items |-> ItemsWithId(resp.items)]

RunResult(workflow_item_id, status, decision, reason_codes) ==
    [workflow_item_id |-> workflow_item_id, status |-> status, decision |-> decision,
     reason_codes |-> reason_codes]

\* for item in items: try: execute_workflow_item ... except ValueError
RECURSIVE RunItems(_, _, _, _)
RunItems(items, responses, k, results) ==
    IF k > Len(items) THEN [raised |-> "none", results |-> results, posts |-> k - 1]
    ELSE
      LET response == execute_workflow_item(responses[k]) IN
      IF response.raised = "none"
      THEN RunItems(items, responses, k + 1,
             Append(results, RunResult(items[k], response.status, response.outcome,
                                       response.reason_codes)))
      ELSE IF response.raised = "ValueError"
      THEN RunItems(items, responses, k + 1,
             Append(results, RunResult(items[k], "error", "deny",
                                       <<"agent_runner.item_execution_failed">>)))
      ELSE [raised |-> response.raised, results |-> results, posts |-> k]

\* a listing error that is never taken for a refusal
ListingDenied_Never(listing) == FALSE

\* "http=403" in error_str
ListingDenied(listing) == listing.raised = "RuntimeError" /\ listing.http = 403

\* reason codes of the error of a refused listing: those of the detail
\* object of the body when json.loads accepts it, else the default
ListingReasonCodes(listing) ==
    IF listing.body.brace /\ listing.body.parses /\ listing.body.detail = "dict"
    THEN listing.body.reason_codes
    ELSE <<"workflow_access_denied">>

RunRecord(raised, record, results, has_error, error_codes, posts) ==
    [raised |-> raised, record |-> record, results |-> results,
     has_error |-> has_error, error_codes |-> error_codes, posts |-> posts]

\* execute_workflow_run
execute_workflow_run(listing_response, responses) ==
    LET listing == list_workflow_items(listing_response) IN
    IF listing.raised # "none"
    THEN IF ListingDenied(listing)
         THEN RunRecord("none", TRUE, <<>>, TRUE, ListingReasonCodes(listing), 0)
         ELSE RunRecord(listing.raised, FALSE, <<>>, FALSE, <<>>, 0)
    ELSE LET run == RunItems(listing.items, responses, 1, <<>>)
         IN  IF run.raised # "none"
             THEN RunRecord(run.raised, FALSE, <<>>, FALSE, <<>>, run.posts)
             ELSE RunRecord("none", TRUE, run.results, FALSE, <<>>, run.posts)

\* principal_user objects: a field is a string or ABSENT
PrincipalUser(id, persona, persona_title, persona_circle) ==
    [id |-> id, persona |-> persona, persona_title |-> persona_title,
     persona_circle |-> persona_circle]

Preflight(raised, decision, reason_codes, calls) ==
    [raised |-> raised, decision |-> decision, reason_codes |-> reason_codes,
     calls |-> calls]

\* check_workflow_execution_authorization; workflow is what GET
\* /v1/workflows/{id} gives ("ok", "no_persona_title", "error"), authz what
\* POST /v1/evaluate gives ("allow", "deny", "no_decision", "error")
check_workflow_execution_authorization(principal_user, user_token, workflow, authz) ==
    IF principal_user.id = ABSENT \/ principal_user.id = ""
    THEN Preflight("none", "deny", <<"invalid_principal">>, <<>>)
    ELSE IF principal_user.persona_title = ABSENT \/ principal_user.persona_title = ""
    THEN Preflight("none", "deny", <<"missing_principal_persona_title">>, <<>>)
    ELSE IF principal_user.persona_circle = ABSENT \/ principal_user.persona_circle = ""
    THEN Preflight("none", "deny", <<"missing_principal_persona_circle">>, <<>>)
    ELSE IF user_token = NULL
    THEN Preflight("none", "deny", <<"missing_user_token">>, <<>>)
    ELSE IF workflow = "error"
    THEN Preflight("none", "deny", <<"workflow_authorization_check_failed">>,
                   <<"get_workflow">>)
    ELSE IF workflow = "no_persona_title"
    THEN Preflight("ValueError", "", <<>>, <<"get_workflow">>)
    ELSE IF authz = "error"
    THEN Preflight("none", "deny", <<"workflow_authorization_check_failed">>,
                   <<"get_workflow", "evaluate">>)
    ELSE IF authz = "no_decision"
    THEN Preflight("none", "deny", <<>>, <<"get_workflow", "evaluate">>)
    ELSE IF authz = "allow"
    THEN Preflight("none", "allow", <<>>, <<"get_workflow", "evaluate">>)
    ELSE Preflight("none", "deny", <<"policy.denied">>, <<"get_workflow", "evaluate">>)

AgCall(op, http, principal, user_token, workflow, authz, preflight, listing_response, responses, run) ==
    [op |-> op, http |-> http, principal |-> principal, user_token |-> user_token,
     workflow |-> workflow, authz |-> authz, preflight |-> preflight,
     listing |-> listing_response, responses |-> responses, run |-> run]

NoPreflight == Preflight("none", "", <<>>, <<>>)
NoRun == RunRecord("none", FALSE, <<>>, FALSE, <<>>, 0)
NoResponse == HttpResponse("ok", 0, NoBody, <<>>)

NoAgCall ==
    AgCall("none", 0, PrincipalUser(ABSENT, ABSENT, ABSENT, ABSENT), NULL, "", "",
           NoPreflight, NoResponse, <<>>, NoRun)

\* the status handle_post_workflow_runs answers with: 403 when the pre-flight
\* is not allow, 400 on ValueError, 500 on any other exception
WorkflowRunsStatus(authz_result, result) ==
    IF authz_result.raised = "ValueError" THEN 400
    ELSE IF authz_result.decision # "allow" THEN 403
    ELSE IF result.raised = "none" THEN 200
    ELSE IF result.raised = "ValueError" THEN 400
    ELSE 500

RunIdle ==
    /\ workflows = NoWorkflows
    /\ ds_out = NoDsCall
    /\ ag_out = NoAgCall

ExtIdle == LibIdle /\ TokenIdle /\ PersonaIdle /\ RunIdle

Init ==
    /\ GraphInit
    /\ QueryIdle
    /\ AuthzIdle
    /\ ExtIdle

\* the table has room for the row this request may insert
HasRoom(p, d, w, s) ==
    \/ Len(delegations) < MaxRows
    \/ ExistingRows(backend, delegations, p, d, w, DefaultScope(s)) # {}

(* Spec: requests arrive one after the other; the handler runs each to its end *)

Create ==
    \E a \in CreateArgs, w \in WorkflowArgs, s \in ScopeArgs, days \in 1..MaxDays :
        /\ AllIdle
        /\ HasRoom(a[1], a[2], w, s)
        /\ CreateStart("h1", a[1], a[2], w, s, days, a[3])

\* a request naming the principal as its own delegate
CreateSelf ==
    /\ AllIdle
    /\ CreateStart("h1", "U1", "U1", NULL, ScopeNone, 1, "U1")

InsertStep ==
    \E h \in Procs : InsertSelect(h) \/ InsertUpdate(h) \/ InsertInsert(h) \/ InsertFetch(h)

RevokeCall ==
    \E a \in RevokeArgs, w \in WorkflowArgs : AllIdle /\ Revoke("h1", a[1], a[2], w)

TickIdle == AllIdle /\ Tick

Next ==
    \/ (UNCHANGED <<ncalls, q_args, q_result, cache_enabled, cache_store, az_out, revoked_ok, extVars>> /\ Create)
    \/ (UNCHANGED <<ncalls, q_args, q_result, cache_enabled, cache_store, az_out, revoked_ok, extVars>> /\ CreateSelf)
    \/ (UNCHANGED <<ncalls, q_args, q_result, cache_enabled, cache_store, az_out, revoked_ok, extVars>> /\ InsertStep)
    \/ (UNCHANGED <<ncalls, q_args, q_result, cache_enabled, cache_store, az_out, revoked_ok, extVars>> /\ RevokeCall)
    \/ (UNCHANGED <<ncalls, q_args, q_result, cache_enabled, cache_store, az_out, revoked_ok, extVars>> /\ TickIdle)

Spec == Init /\ [][Next]_vars

----------------------------------------------------------------------------
(* SpecConc: two handler threads take requests as they come; the clock     *)
(* stands still while they run                                             *)

ConcCreate ==
    \E h \in Procs, a \in CreateArgs, w \in WorkflowArgs, s \in ScopeArgs,
       days \in 1..MaxDays :
        /\ ncalls < ConcCalls
        /\ ncalls' = ncalls + 1
        /\ CreateStart(h, a[1], a[2], w, s, days, a[3])

ConcInsertStep == InsertStep /\ UNCHANGED ncalls

ConcRevoke ==
    \E h \in Procs, a \in RevokeArgs, w \in WorkflowArgs :
        /\ ncalls < ConcCalls
        /\ ncalls' = ncalls + 1
        /\ Revoke(h, a[1], a[2], w)

NextConc ==
    \/ (ConcCreate /\ UNCHANGED <<queryVars, authzVars, extVars>>)
    \/ (ConcInsertStep /\ UNCHANGED <<queryVars, authzVars, extVars>>)
    \/ (ConcRevoke /\ UNCHANGED <<queryVars, authzVars, extVars>>)

SpecConc == Init /\ [][NextConc]_vars

----------------------------------------------------------------------------
(* SpecSub: requests arrive one after the other; besides U1, the delegate  *)
(* U2 asks for delegations of U1's authority to U3 (sub-delegation)        *)

\* POST /v1/delegations {principal_id: U1, delegate_id: U3} with the token of U2
CreateSub ==
    \E w \in WorkflowArgs, s \in ScopeArgs, days \in 1..MaxDays :
        /\ AllIdle
        /\ HasRoom("U1", "U3", w, s)
        /\ CreateStart("h1", "U1", "U3", w, s, days, "U2")

NextSub ==
    \/ (UNCHANGED <<ncalls, queryVars, authzVars, extVars>> /\ Create)
    \/ (UNCHANGED <<ncalls, queryVars, authzVars, extVars>> /\ CreateSub)
    \/ (UNCHANGED <<ncalls, queryVars, authzVars, extVars>> /\ InsertStep)
    \/ (UNCHANGED <<ncalls, queryVars, authzVars, extVars>> /\ RevokeCall)
    \/ (UNCHANGED <<ncalls, queryVars, authzVars, extVars>> /\ TickIdle)

SpecSub == Init /\ [][NextSub]_vars

----------------------------------------------------------------------------
(* SpecQuery: the read operations of the graph store on a table of stored  *)
(* edges.  The table is any selection of at most MaxEdges candidate edges. *)

Nodes == {"A", "B", "C", "D"}
QueryWorkflows == {NULL, "W1", "W2"}

Edge(p, d, w, s, e, c, r) ==
    [principal_id |-> p, delegate_id |-> d, workflow_id |-> w, scope |-> s,
     expires_at |-> e, created_at |-> c, revoked_at |-> r]

\* candidate rows: chains, a branch, cycles, workflow-bound edges, edges
\* that expire at 1, one revoked edge, an execute-only edge behind a node
\* that a read-only and a read-execute edge both reach
EdgeUniverse == <<
    Edge("A", "B", NULL, <<"execute", "read">>, 5, 0, NoTime),
    Edge("A", "B", "W1", <<"read">>, 5, 1, NoTime),
    Edge("A", "C", NULL, <<"execute">>, 5, 0, NoTime),
    Edge("B", "C", NULL, <<"read">>, 5, 1, NoTime),
    Edge("B", "C", "W1", <<"read", "execute">>, 5, 0, NoTime),
    Edge("C", "D", NULL, <<"execute", "read">>, 5, 0, NoTime),
    Edge("B", "A", NULL, <<"execute", "read">>, 5, 0, NoTime),
    Edge("A", "D", "W2", <<"read">>, 5, 1, NoTime),
    Edge("B", "D", NULL, <<"execute">>, 1, 0, NoTime),
    Edge("A", "D", NULL, <<"execute", "read">>, 5, 0, 0),
    Edge("A", "B", "W2", <<"execute">>, 1, 0, NoTime),
    Edge("C", "A", NULL, <<"read">>, 5, 1, NoTime),
    Edge("B", "D", "W1", <<"execute">>, 5, 0, NoTime) >>

\* the candidate rows picked by S, in the order of EdgeUniverse
TableOf(S) ==
    LET n == Cardinality(S)
        f == CHOOSE g \in [1..n -> S] : \A i, j \in 1..n : i < j => g[i] < g[j]
    IN  [i \in 1..n |-> EdgeUniverse[f[i]]]

QueryTables ==
    {TableOf(S) : S \in {T \in SUBSET (1..Len(EdgeUniverse)) : Cardinality(T) <= MaxEdges}}

\* ORDER BY created_at DESC: any order of the rows that respects created_at
OrderByCreatedDesc(tbl, S) ==
    {f \in [1..Cardinality(S) -> S] :
        /\ \A i, j \in 1..Cardinality(S) : i # j => f[i] # f[j]
        /\ \A i, j \in 1..Cardinality(S) :
              i < j => tbl[f[i]].created_at >= tbl[f[j]].created_at}

QueryArgs(op, p, d, w, max_depth, include_expired) ==
    [op |-> op, p |-> p, d |-> d, w |-> w, max_depth |-> max_depth,
     include_expired |-> include_expired]

\* find_delegation_path(principal_id, delegate_id, workflow_id, max_depth)
QFind ==
    /\ q_args = NoQuery      \* one query on each table: reads change nothing
    /\ \E src \in {"A", "B"}, dst \in Nodes, w \in QueryWorkflows,
       max_depth \in 1..MaxDepthArg, ord \in RowOrders(delegations) :
        /\ q_args' = QueryArgs("find", src, dst, w, max_depth, FALSE)
        /\ q_result' = [path |-> find_delegation_path(delegations, ord, src, dst, w,
                                                      max_depth, now),
                        rows |-> <<>>]

\* list_outgoing_edges(principal_id, workflow_id, include_expired)
QListOut ==
    /\ q_args = NoQuery      \* one query on each table: reads change nothing
    /\ \E p \in Nodes, w \in QueryWorkflows, include_expired \in BOOLEAN :
      \E rows \in OrderByCreatedDesc(delegations,
                    ListOutgoingRows(delegations, p, w, include_expired, now)) :
        /\ q_args' = QueryArgs("list_outgoing", p, "", w, 0, include_expired)
        /\ q_result' = [path |-> NoPath, rows |-> rows]

\* list_incoming_edges(delegate_id, workflow_id, include_expired)
QListIn ==
    /\ q_args = NoQuery      \* one query on each table: reads change nothing
    /\ \E d \in Nodes, w \in QueryWorkflows, include_expired \in BOOLEAN :
      \E rows \in OrderByCreatedDesc(delegations,
                    ListIncomingRows(delegations, d, w, include_expired, now)) :
        /\ q_args' = QueryArgs("list_incoming", "", d, w, 0, include_expired)
        /\ q_result' = [path |-> NoPath, rows |-> rows]

InitQuery ==
    /\ backend \in Backends
    /\ delegations \in QueryTables
    /\ now \in {1, 2}
    /\ pc = [h \in Procs |-> "idle"]
    /\ req = [h \in Procs |-> NoReq]
    /\ existing_row = [h \in Procs |-> NoRow]
    /\ pre = [h \in Procs |-> <<>>]
    /\ ncalls = 0
    /\ last_call = [h \in Procs |-> NoCall]
    /\ QueryIdle
    /\ AuthzIdle
    /\ ExtIdle

NextQuery ==
    \/ (QFind /\ UNCHANGED <<graphVars, authzVars, extVars>>)
    \/ (QListOut /\ UNCHANGED <<graphVars, authzVars, extVars>>)
    \/ (QListIn /\ UNCHANGED <<graphVars, authzVars, extVars>>)

SpecQuery == InitQuery /\ [][NextQuery]_vars

----------------------------------------------------------------------------
(* SpecAuthz: the authorization engine evaluating requests while the       *)
(* delegation U1 -> U2 is revoked and time passes                          *)

\* the store when the engine starts: U1 -> U2 for W1; the same and
\* U1 -> U2 for all workflows.  Edges expire after one day.
AuthzTables ==
    {<<NewRow("U1", "U2", "W1", <<"execute", "read">>, 86400, 0)>>,
     <<NewRow("U1", "U2", "W1", <<"execute", "read">>, 86400, 0),
       NewRow("U1", "U2", NULL, <<"read">>, 86400, 0)>>}

InitAuthz ==
    /\ backend = "postgres"
    /\ delegations \in AuthzTables
    /\ now = 0
    /\ pc = [h \in Procs |-> "idle"]
    /\ req = [h \in Procs |-> NoReq]
    /\ existing_row = [h \in Procs |-> NoRow]
    /\ pre = [h \in Procs |-> <<>>]
    /\ ncalls = 0
    /\ last_call = [h \in Procs |-> NoCall]
    /\ QueryIdle
    /\ cache_enabled \in BOOLEAN
    /\ cache_store = {}
    /\ az_out = NoOutcome
    /\ revoked_ok = {}
    /\ ExtIdle

NextAuthz ==
    \/ (AzEvaluate /\ UNCHANGED <<graphVars, queryVars, extVars>>)
    \/ (UNCHANGED <<ncalls, queryVars, extVars>> /\ AzRevoke)
    \/ (AzTick /\ UNCHANGED <<ncalls, queryVars, extVars>>)

SpecAuthz == InitAuthz /\ [][NextAuthz]_vars

----------------------------------------------------------------------------
(* SpecCache: one process calling http_get_json and http_post_json on the  *)
(* URLs of the services while time passes                                  *)

\* query parameters of the GET requests
LibParams == {"a"}

\* http_get_json(url, params)
LibGet ==
    \E url \in Urls, params \in LibParams, up \in BOOLEAN, fault \in {"none"} :
      \E got \in {http_get_json_fallback(
                     http_get_json_with_cache(cache_enabled, cache_store,
                         CacheKey(ResourceType(url), <<url, params>>),
                         BackendGet(cache_backend, cache_store,
                                    CacheKey(ResourceType(url), <<url, params>>), now),
                         LibGetImpl(up, upstream[url]), now, determine_ttl(url), fault),
                     LibGetImpl(up, upstream[url]))} :
          /\ cache_store' = got.store
          /\ cache_out' = LibCall("get", url, got, fault)
          /\ UNCHANGED <<cache_enabled, cache_backend, upstream, now>>

\* http_post_json(url, payload): a mutating call; a 2xx answer means the
\* service changed the resource
LibPost ==
    \E url \in Urls, ok \in BOOLEAN, fault \in BOOLEAN :
      \E posted \in {http_post_json(cache_enabled, cache_backend, cache_store, url, ok,
                                     fault)} :
          /\ ok => upstream[url] < MaxVersion
          /\ upstream' = IF ok THEN [upstream EXCEPT ![url] = @ + 1] ELSE upstream
          /\ cache_store' = posted.store
          /\ cache_out' = LibCall("post", url,
                                  [raised |-> posted.raised, data |-> NULL,
                                   lookup |-> "none", requests |-> 1],
                                  IF fault THEN "invalidate" ELSE "none")
          /\ UNCHANGED <<cache_enabled, cache_backend, now>>

\* the clock moves past the lifetime of a delegation entry
LibTick ==
    /\ now + CACHE_TTL_DELEGATION + 1 <= MaxClock
    /\ now' = now + CACHE_TTL_DELEGATION + 1
    /\ UNCHANGED <<cache_enabled, cache_backend, cache_store, upstream, cache_out>>

InitCache ==
    /\ backend = "postgres"
    /\ delegations = <<>>
    /\ now = 0
    /\ pc = [h \in Procs |-> "idle"]
    /\ req = [h \in Procs |-> NoReq]
    /\ existing_row = [h \in Procs |-> NoRow]
    /\ pre = [h \in Procs |-> <<>>]
    /\ ncalls = 0
    /\ last_call = [h \in Procs |-> NoCall]
    /\ QueryIdle
    /\ cache_enabled \in BOOLEAN
    /\ cache_store = {}
    /\ az_out = NoOutcome
    /\ revoked_ok = {}
    /\ cache_backend \in CacheBackends
    /\ upstream = [u \in Urls |-> 0]
    /\ cache_out = NoLibCall
    /\ TokenIdle
    /\ PersonaIdle
    /\ RunIdle

NextCache ==
    \/ (LibGet /\ UNCHANGED <<backend, delegations, pc, req, existing_row, pre,
                              last_call, ncalls, queryVars, az_out, revoked_ok,
                               tokenVars, personaVars, runVars>>)
    \/ (LibPost /\ UNCHANGED <<backend, delegations, pc, req, existing_row, pre,
                               last_call, ncalls, queryVars, az_out, revoked_ok,
                               tokenVars, personaVars, runVars>>)
    \/ (LibTick /\ UNCHANGED <<backend, delegations, pc, req, existing_row, pre,
                               last_call, ncalls, queryVars, az_out, revoked_ok,
                               tokenVars, personaVars, runVars>>)

SpecCache == InitCache /\ [][NextCache]_vars

----------------------------------------------------------------------------
(* SpecToken: the handler threads of one process calling get_service_token *)
(* while time passes                                                       *)

TokenStep == 120

GetToken == \E h \in Procs : TokenCall(h)

MintAnswer == \E h \in Procs : TokenAnswer(h)

TokenTick ==
    /\ now + TokenStep <= MaxTokenClock
    /\ now' = now + TokenStep
    /\ UNCHANGED tokenVars

InitToken ==
    /\ backend = "postgres"
    /\ delegations = <<>>
    /\ now = 0
    /\ pc = [h \in Procs |-> "idle"]
    /\ req = [h \in Procs |-> NoReq]
    /\ existing_row = [h \in Procs |-> NoRow]
    /\ pre = [h \in Procs |-> <<>>]
    /\ ncalls = 0
    /\ last_call = [h \in Procs |-> NoCall]
    /\ QueryIdle
    /\ AuthzIdle
    /\ LibIdle
    /\ TokenIdle
    /\ PersonaIdle
    /\ RunIdle

NextToken ==
    \/ (GetToken /\ UNCHANGED <<backend, delegations, pc, req, existing_row, pre,
                                last_call, ncalls, queryVars, authzVars, libVars, personaVars,
                                runVars>>)
    \/ (MintAnswer /\ UNCHANGED <<backend, delegations, pc, req, existing_row, pre,
                                  last_call, ncalls, queryVars, authzVars, libVars, personaVars,
                                runVars>>)
    \/ (TokenTick /\ UNCHANGED <<backend, delegations, pc, req, existing_row, pre,
                                 last_call, ncalls, queryVars, authzVars, libVars, personaVars,
                                runVars>>)

SpecToken == InitToken /\ [][NextToken]_vars

----------------------------------------------------------------------------
(* SpecPersona: the persona API serving the requests of user U1 one after  *)
(* the other                                                               *)

TitleArgs  == ALLOWED_PERSONA_TITLES \cup {"pilot"}
CircleArgs == {"family", "acme"}

\* the attributes a create request carries: all of them, the required one
\* only, all but the required one, a price of the wrong type
CreateBodies ==
    {Custom(c, b[1], b[2], b[3], b[4]) :
        c \in CircleArgs,
        b \in {<<"500", "True", "7", "0">>, <<"500", ABSENT, ABSENT, ABSENT>>,
               <<ABSENT, "True", "7", "0">>, <<"'x'", ABSENT, "7", "0">>}}

\* the attributes an update request carries
UpdateBodies == {NoCustom, Custom("acme", "0", ABSENT, "7", ABSENT)}

\* the ids a request may name
PersonaIdArgs(be) ==
    IF be = "sqlite"
    THEN {<<"U1", t, c>> : t \in ALLOWED_PERSONA_TITLES, c \in {"family", "acme"}}
    ELSE {<<"U1", t>> : t \in ALLOWED_PERSONA_TITLES}

\* a document of the personas collection written while the manifest did not
\* declare autobook_price, autobook_leadtime and autobook_risklevel
LegacyDocument ==
    [persona_id |-> <<"U1", "travel-agent">>, user_sub |-> "U1",
     title |-> "travel-agent", circle |-> ABSENT,
     attrs |-> [n \in PersonaAttrNames |-> IF n = "consent" THEN "True" ELSE ABSENT]]

InitialStores(be) == IF be = "firestore" THEN {{}, {LegacyDocument}} ELSE {{}}

\* POST /v1/personas
PsCreate ==
    \E title \in TitleArgs, custom \in CreateBodies :
      \E result \in {create_persona(persona_backend, personas, "U1", title, custom)} :
        /\ personas' = result.store
        /\ ps_out' = PsCall("create", "h1", title, <<>>, custom, personas, result)
        /\ UNCHANGED <<persona_backend, ps_pc, ps_req>>

\* PUT /v1/personas/{persona_id}
PsUpdate ==
    \E persona_id \in PersonaIdArgs(persona_backend),
       title \in {NULL, "travel-agent"}, custom \in UpdateBodies :
      \E result \in {update_persona(persona_backend, personas, persona_id, "U1",
                                    title, custom)} :
        /\ personas' = result.store
        /\ ps_out' = PsCall("update", "h1", title, persona_id, custom, personas, result)
        /\ UNCHANGED <<persona_backend, ps_pc, ps_req>>

\* DELETE /v1/personas/{persona_id}
PsDelete ==
    \E persona_id \in PersonaIdArgs(persona_backend) :
      \E result \in {delete_persona(personas, persona_id, "U1")} :
        /\ personas' = result.store
        /\ ps_out' = PsCall("delete", "h1", NULL, persona_id, NoCustom, personas, result)
        /\ UNCHANGED <<persona_backend, ps_pc, ps_req>>

OthersIdle ==
    /\ backend = "postgres"
    /\ delegations = <<>>
    /\ now = 0
    /\ pc = [h \in Procs |-> "idle"]
    /\ req = [h \in Procs |-> NoReq]
    /\ existing_row = [h \in Procs |-> NoRow]
    /\ pre = [h \in Procs |-> <<>>]
    /\ ncalls = 0
    /\ last_call = [h \in Procs |-> NoCall]
    /\ QueryIdle
    /\ AuthzIdle
    /\ LibIdle
    /\ TokenIdle

InitPersona ==
    /\ OthersIdle
    /\ RunIdle
    /\ persona_backend \in PersonaBackends
    /\ personas \in InitialStores(persona_backend)
    /\ ps_pc = [h \in Procs |-> "idle"]
    /\ ps_req = [h \in Procs |-> NoPsReq]
    /\ ps_out = NoPsCall

NextPersona ==
    \/ (PsCreate /\ UNCHANGED <<graphVars, queryVars, authzVars, libVars, tokenVars, runVars>>)
    \/ (PsUpdate /\ UNCHANGED <<graphVars, queryVars, authzVars, libVars, tokenVars, runVars>>)
    \/ (PsDelete /\ UNCHANGED <<graphVars, queryVars, authzVars, libVars, tokenVars, runVars>>)

SpecPersona == InitPersona /\ [][NextPersona]_vars

----------------------------------------------------------------------------
(* SpecPersonaConc: two handler threads of the persona API serving create  *)
(* requests of user U1; a thread may be preempted between the checks of    *)
(* PersonaService.create_persona and the call of the database              *)

ConcBodies == {Custom(c, "500", "True", "7", "0") : c \in {"family", "acme"}}

\* PersonaService.create_persona up to personadb.create_persona
PsCreateChecks(h) ==
    \E title \in ALLOWED_PERSONA_TITLES, custom \in ConcBodies :
      \E checked \in {create_persona_checks(personas, "U1", title, custom)} :
        /\ ps_pc[h] = "idle"
        /\ IF checked.raised # ""
           THEN /\ ps_out' = PsCall("create", h, title, <<>>, custom, personas,
                                    DbResult(checked.raised, checked.error,
                                             personas, NoPersona))
                /\ UNCHANGED <<ps_pc, ps_req>>
           ELSE /\ ps_pc' = [ps_pc EXCEPT ![h] = "insert"]
                /\ ps_req' = [ps_req EXCEPT ![h] =
                                [title |-> title, custom |-> custom,
                                 kwargs |-> checked.kwargs]]
                /\ UNCHANGED ps_out
        /\ UNCHANGED <<persona_backend, personas>>

\* personadb.create_persona and the handler's answer
PsCreateInsert(h) ==
    /\ ps_pc[h] = "insert"
    /\ \E result \in {personadb_create_persona(persona_backend, personas, "U1",
                                               ps_req[h].title, ps_req[h].kwargs)} :
        /\ personas' = result.store
        /\ ps_out' = PsCall("create", h, ps_req[h].title, <<>>, ps_req[h].custom,
                            personas, result)
    /\ ps_pc' = [ps_pc EXCEPT ![h] = "idle"]
    /\ ps_req' = [ps_req EXCEPT ![h] = NoPsReq]
    /\ UNCHANGED persona_backend

PsConcChecks == \E h \in Procs : PsCreateChecks(h)

PsConcInsert == \E h \in Procs : PsCreateInsert(h)

InitPersonaConc ==
    /\ OthersIdle
    /\ RunIdle
    /\ persona_backend \in PersonaBackends
    /\ personas = {}
    /\ ps_pc = [h \in Procs |-> "idle"]
    /\ ps_req = [h \in Procs |-> NoPsReq]
    /\ ps_out = NoPsCall

NextPersonaConc ==
    \/ (PsConcChecks /\ UNCHANGED <<graphVars, queryVars, authzVars, libVars, tokenVars, runVars>>)
    \/ (PsConcInsert /\ UNCHANGED <<graphVars, queryVars, authzVars, libVars, tokenVars, runVars>>)
    \/ (PsDelete /\ UNCHANGED <<graphVars, queryVars, authzVars, libVars, tokenVars, runVars>>)

SpecPersonaConc == InitPersonaConc /\ [][NextPersonaConc]_vars

----------------------------------------------------------------------------
(* SpecItems: the domain service creates a workflow and executes its items *)

WorkflowIdArgs == WorkflowIds \cup {"w9"}
ItemIdArgs == ItemIds \cup {"i9"}

\* POST /v1/workflows
DsCreateWorkflow ==
    \E w \in WorkflowIds :
        /\ ~ workflows[w].created
        /\ workflows' = create_workflow_from_template(workflows, w)
        /\ ds_out' = [NoDsCall EXCEPT !.op = "create", !.workflow_id = w, !.http = 200]
        /\ UNCHANGED ag_out

\* POST /v1/workflows/{workflow_id}/items/{workflow_item_id}/execute
DsExecute ==
    \E w \in WorkflowIdArgs, i \in ItemIdArgs, dry_run \in BOOLEAN,
       payload \in DecisionPayloads :
      \E r \in {service_execute_workflow_item(workflows, w, i, payload, dry_run)} :
        /\ workflows' = r.store
        /\ ds_out' = DsCall("execute", w, i, dry_run, payload, workflows, r)
        /\ UNCHANGED ag_out

InitItems ==
    /\ OthersIdle
    /\ PersonaIdle
    /\ RunIdle

NextItems ==
    \/ (DsCreateWorkflow /\ UNCHANGED <<graphVars, queryVars, authzVars, libVars, tokenVars, personaVars>>)
    \/ (DsExecute /\ UNCHANGED <<graphVars, queryVars, authzVars, libVars, tokenVars, personaVars>>)

SpecItems == InitItems /\ [][NextItems]_vars

----------------------------------------------------------------------------
(* SpecAgent: the runner answers requests; the domain service and the     *)
(* authorization engine answer its calls in every way the network allows  *)

ExecuteResponses ==
    { HttpResponse("ok", 200, JsonObject, <<>>),
      HttpResponse("ok", 201, JsonObject, <<>>),
      HttpResponse("ok", 200, HtmlPage, <<>>),
      HttpResponse("ok", 403, DenyDetailObject, <<>>),
      HttpResponse("ok", 403, DenyDetailObjectLong, <<>>),
      HttpResponse("ok", 403, DenyDetailString, <<>>),
      HttpResponse("ok", 403, DenyPlainText, <<>>),
      HttpResponse("ok", 404, ErrorDetailString, <<>>),
      HttpResponse("ok", 500, HtmlPage, <<>>),
      HttpResponse("error", 0, NoBody, <<>>) }

\* payload["items"]: entries with an item_id, and entries without (NULL)
ListingPayloads == UNION {[1..n -> ItemIds \cup {NULL}] : n \in 0..MaxItems}

ListingResponses ==
    {HttpResponse("ok", 200, JsonObject, items) : items \in ListingPayloads}
    \cup { HttpResponse("ok", 403, DenyDetailObject, <<>>),
           HttpResponse("ok", 403, DenyPlainText, <<>>),
           HttpResponse("ok", 500, ErrorDetailString, <<>>),
           HttpResponse("error", 0, NoBody, <<>>) }

ResponseRuns == [1..MaxItems -> ExecuteResponses]

PrincipalUsers ==
    { PrincipalUser("U1", "traveler", "traveler", "family"),
      PrincipalUser("U1", "traveler", ABSENT, ABSENT),
      PrincipalUser("U1", ABSENT, "traveler", ABSENT),
      PrincipalUser(ABSENT, ABSENT, "traveler", "family") }

WorkflowFetches == {"ok", "no_persona_title", "error"}
AuthzAnswers == {"allow", "deny", "no_decision", "error"}

\* execute_workflow_run called with a principal_user and the user's token
AgExecuteWorkflowRun ==
    /\ ag_out = NoAgCall    \* the runner keeps no state: one request per behaviour
    /\ \E listing_response \in ListingResponses, responses \in ResponseRuns :
        \E run \in {execute_workflow_run(listing_response, responses)} :
          /\ ag_out' = AgCall("execute_workflow_run", 0,
                              PrincipalUser("U1", "traveler", ABSENT, ABSENT), "tok", "",
                              "", NoPreflight, listing_response, responses, run)
          /\ UNCHANGED <<workflows, ds_out>>

\* check_workflow_execution_authorization called with every kind of argument
AgCheckAuthorization ==
    /\ ag_out = NoAgCall    \* the runner keeps no state: one request per behaviour
    /\ \E principal_user \in PrincipalUsers, user_token \in {NULL, "tok"},
          workflow \in WorkflowFetches, authz \in AuthzAnswers :
        \E authz_result \in {check_workflow_execution_authorization(principal_user,
                                  user_token, workflow, authz)} :
          /\ ag_out' = AgCall("check_authorization", 0, principal_user, user_token,
                              workflow, authz, authz_result, NoResponse, <<>>, NoRun)
          /\ UNCHANGED <<workflows, ds_out>>

\* POST /v1/workflow-runs, handle_post_workflow_runs: the principal_user it
\* builds holds type, id and persona; the pre-flight is called without
\* user_token; execute_workflow_run runs when the pre-flight says allow
AgPostWorkflowRuns ==
    /\ ag_out = NoAgCall    \* the runner keeps no state: one request per behaviour
    /\ \E sub \in {"U1", "U2"}, workflow \in WorkflowFetches, authz \in AuthzAnswers,
          listing_response \in ListingResponses, responses \in ResponseRuns :
        \E principal_user \in {PrincipalUser(sub, "traveler", ABSENT, ABSENT)} :
        \E authz_result \in {check_workflow_execution_authorization(principal_user,
                                  NULL, workflow, authz)} :
        \E result \in {IF authz_result.raised = "none" /\ authz_result.decision = "allow"
                        THEN execute_workflow_run(listing_response, responses)
                        ELSE NoRun} :
          /\ ag_out' = AgCall("post_workflow_runs",
                              WorkflowRunsStatus(authz_result, result), principal_user,
                              NULL, workflow, authz, authz_result, listing_response,
                              responses, result)
          /\ UNCHANGED <<workflows, ds_out>>

NextAgent ==
    \/ (AgExecuteWorkflowRun /\ UNCHANGED <<graphVars, queryVars, authzVars, libVars, tokenVars, personaVars>>)
    \/ (AgCheckAuthorization /\ UNCHANGED <<graphVars, queryVars, authzVars, libVars, tokenVars, personaVars>>)
    \/ (AgPostWorkflowRuns /\ UNCHANGED <<graphVars, queryVars, authzVars, libVars, tokenVars, personaVars>>)

SpecAgent == InitItems /\ [][NextAgent]_vars

----------------------------------------------------------------------------
(* Properties of the authorization engine *)

\* the request passes every validation step of the pipeline
RequestValid(rq) ==
    /\ rq.policy_hint \in PolicyNames
    /\ rq.subject_ok
    /\ rq.action \in ALLOWED_ACTIONS
    /\ rq.attrs_ok
    /\ rq.principal # NULL
    /\ rq.persona_title

\* C1: an evaluation answers allow only for a valid request whose persona
\* lookups worked and whose rule engine was called and said allow; a request
\* that fails validation, or meets an unreachable persona service or rule
\* engine, gets deny with a reason code, and every evaluation gets a decision
C1_FailClosed ==
    az_out # NoOutcome
    => /\ az_out.decision \in {"allow", "deny"}
       /\ az_out.decision = "allow"
            => /\ RequestValid(az_out.rq)
               /\ az_out.env.persona # "down"
               /\ az_out.opa_called /\ az_out.env.opa = "allow"
       /\ (~ RequestValid(az_out.rq) \/ az_out.env.persona = "down"
              \/ az_out.env.opa = "down")
            => (az_out.decision = "deny" /\ az_out.reason_codes # <<>>)

\* C6: an evaluation that starts after revoke(U1, U2, W1) returned true, with
\* no live path left in the store, hands the rule engine an empty delegation
C6_RevokedDelegationNotUsed ==
    (az_out.after_revoke /\ az_out.opa_called /\ ~ az_out.store_valid)
    => az_out.delegation = EmptyDelegation

----------------------------------------------------------------------------
(* Properties of the read operations *)

RECURSIVE ScopeIntersection(_, _, _)
\* intersection of the scopes of rows ids[k..], starting from acc
ScopeIntersection(tbl, ids, acc) ==
    IF ids = <<>> THEN acc
    ELSE ScopeIntersection(tbl, Tail(ids), acc \cap ToSet(tbl[Head(ids)].scope))

\* edges is a chain of stored rows leading along path
EdgesFollowPath(tbl, path, edges) ==
    /\ Len(edges) = Len(path) - 1
    /\ \A k \in DOMAIN edges :
          /\ edges[k] \in DOMAIN tbl
          /\ tbl[edges[k]].principal_id = path[k]
          /\ tbl[edges[k]].delegate_id = path[k + 1]

\* C3: a path returned by find_delegation_path starts at the principal, ends
\* at the delegate, has at most max_depth + 1 nodes, and its delegated_actions
\* are the intersection of the scopes of the stored edges it follows
C3_PathShapeAndActions ==
    (q_args.op = "find" /\ q_result.path.found)
    => LET r == q_result.path IN
       /\ Len(r.path) >= 1
       /\ r.path[1] = q_args.p
       /\ r.path[Len(r.path)] = q_args.d
       /\ Len(r.path) <= q_args.max_depth + 1
       /\ EdgesFollowPath(delegations, r.path, r.edges)
       /\ ToSet(r.delegated_actions)
            = ScopeIntersection(delegations, r.edges, DELEGATION_ALLOWED_ACTIONS)

\* a path of two edges whose scopes differ was returned
C3_Witness ==
    /\ q_args.op = "find" /\ q_result.path.found
    /\ Len(q_result.path.path) = 3
    /\ q_result.path.delegated_actions = <<"read">>
    /\ \E k \in DOMAIN q_result.path.edges :
          "execute" \in ToSet(delegations[q_result.path.edges[k]].scope)

\* C4: list_outgoing_edges and list_incoming_edges without include_expired
\* return, and every hop query of find_delegation_path yields, only rows
\* with revoked_at NULL and expires_at later than the time of the query
C4_OnlyLiveEdges ==
    /\ (q_args.op \in {"list_outgoing", "list_incoming"} /\ ~ q_args.include_expired)
        => \A k \in DOMAIN q_result.rows :
              /\ delegations[q_result.rows[k]].revoked_at = NoTime
              /\ delegations[q_result.rows[k]].expires_at > now
    /\ q_args.op = "find"
        => \A i \in q_result.path.scanned \cup ToSet(q_result.path.edges) :
              /\ delegations[i].revoked_at = NoTime
              /\ delegations[i].expires_at > now

\* a search went through a node that also has a revoked or expired edge
C4_Witness ==
    /\ q_args.op = "find"
    /\ q_result.path.scanned # {}
    /\ \E i \in DOMAIN delegations :
          /\ delegations[i].principal_id = q_args.p
          /\ WorkflowFilter(delegations[i], q_args.w)
          /\ (delegations[i].revoked_at # NoTime \/ delegations[i].expires_at <= now)

----------------------------------------------------------------------------
(* Properties of the delegation store *)

TripleRows(tbl, p, d, w) == {i \in DOMAIN tbl : MatchesTriple(tbl[i], p, d, w)}
NonRevoked(tbl, p, d, w) == {i \in TripleRows(tbl, p, d, w) : tbl[i].revoked_at = NoTime}
RevokedRows(tbl, p, d, w) == {i \in TripleRows(tbl, p, d, w) : tbl[i].revoked_at # NoTime}

\* C2: whatever inserts and revokes ran, the table holds at most one
\* non-revoked edge per (principal_id, delegate_id, workflow_id), NULL included
C2_OneNonRevokedEdgePerTriple ==
    \A i, j \in DOMAIN delegations :
        (/\ MatchesTriple(delegations[i], delegations[j].principal_id,
                          delegations[j].delegate_id, delegations[j].workflow_id)
         /\ delegations[i].revoked_at = NoTime
         /\ delegations[j].revoked_at = NoTime) => i = j

\* C5 as stated: a revoked edge and an edge whose expires_at has passed never
\* become live again, and no row leaves the table
C5_RevokedAndExpiredTerminal ==
    [][/\ Len(delegations') >= Len(delegations)
       /\ \A i \in DOMAIN delegations :
             ~ IsLive(delegations[i], now) => ~ IsLive(delegations'[i], now')]_vars

\* C5 as the code has it: a revoked edge is never touched again (so it is
\* never live again), every row stays in the table with its identity, and
\* only a change of expires_at or revoked_at moves an edge between states
C5_RevokedTerminalNoDelete ==
    [][/\ Len(delegations') >= Len(delegations)
       /\ \A i \in DOMAIN delegations :
             /\ delegations'[i].principal_id = delegations[i].principal_id
             /\ delegations'[i].delegate_id = delegations[i].delegate_id
             /\ delegations'[i].workflow_id = delegations[i].workflow_id
             /\ delegations'[i].created_at = delegations[i].created_at
             /\ (delegations[i].revoked_at # NoTime
                    => delegations'[i] = delegations[i])]_vars

\* an insert changed the table while a revoked edge of its triple was stored
C5_Witness ==
    \E h \in Procs :
        LET c == last_call[h] IN
        /\ c.op = "create"
        /\ RevokedRows(c.pre, c.p, c.d, c.w) # {}
        /\ c.post # c.pre
        /\ \A i \in RevokedRows(c.pre, c.p, c.d, c.w) : c.post[i] = c.pre[i]

\* C7: on the Postgres store two inserts for one triple that overlap in time
\* leave exactly one non-revoked edge, with the union of both scopes and the
\* later expiry
C7_ConcurrentInsertsAtomic ==
    LET a == last_call["h1"]
        b == last_call["h2"]
    IN  (/\ backend = "postgres"
         /\ AllIdle /\ ncalls = 2
         /\ a.op = "create" /\ b.op = "create"
         /\ a.p = b.p /\ a.d = b.d /\ a.w = b.w
         /\ (a.n_end > a.n_start \/ b.n_end > b.n_start))
        => LET live == NonRevoked(delegations, a.p, a.d, a.w) IN
           /\ Cardinality(live) = 1
           /\ \A i \in live :
                /\ ToSet(delegations[i].scope)
                      = ToSet(DefaultScope(a.s)) \cup ToSet(DefaultScope(b.s))
                /\ delegations[i].expires_at = Max(a.e, b.e)

\* C8: two inserts for one triple, one after the other, starting without a
\* non-revoked edge: one live edge remains, scope s1 \cup s2, expiry
\* max(e1, e2); the second leaves the table alone if s2 \subseteq s1 and e2 <= e1
C8_InsertTwiceMerges ==
    [][LET a == last_call["h1"]
           b == last_call'["h1"]
           s1 == ToSet(DefaultScope(a.s))
           s2 == ToSet(DefaultScope(b.s))
       IN  (/\ a # b
            /\ a.op = "create" /\ b.op = "create"
            /\ a.p = b.p /\ a.d = b.d /\ a.w = b.w /\ a.p # a.d
            /\ NonRevoked(a.pre, a.p, a.d, a.w) = {})
           => LET live == NonRevoked(delegations', a.p, a.d, a.w) IN
              /\ Cardinality(live) = 1
              /\ \A i \in live :
                   /\ IsLive(delegations'[i], now')
                   /\ ToSet(delegations'[i].scope) = s1 \cup s2
                   /\ delegations'[i].expires_at = Max(a.e, b.e)
              /\ ((s2 \subseteq s1 /\ b.e <= a.e) => delegations' = a.post)]_vars

\* C9: an insert that finds only revoked edges of its triple returns a new
\* non-revoked edge, adds exactly that row, leaves the revoked rows as they
\* were, and raises no unique-constraint error
C9_ReinsertAfterRevoke ==
    LET c == last_call["h1"] IN
    (/\ c.op = "create" /\ c.p # c.d
     /\ RevokedRows(c.pre, c.p, c.d, c.w) # {}
     /\ NonRevoked(c.pre, c.p, c.d, c.w) = {})
    => /\ c.raised # "IntegrityError"
       /\ c.rows # <<>>
       /\ \A k \in DOMAIN c.rows : c.rows[k].revoked_at = NoTime
       /\ Len(c.post) = Len(c.pre) + 1
       /\ \A i \in DOMAIN c.pre : c.post[i] = c.pre[i]

\* C10: a create whose insert_edge returned an edge answers without an
\* exception, 201 (was_created) exactly when the triple had no non-revoked
\* edge before the call, 200 otherwise
C10_WasCreatedFlag ==
    LET c == last_call["h1"] IN
    (c.op = "create" /\ c.rows # <<>>)
    => /\ c.raised = ""
       /\ c.http = (IF NonRevoked(c.pre, c.p, c.d, c.w) = {} THEN 201 ELSE 200)

\* C11: a revoke of a triple that has a live edge returns true and stamps
\* revoked_at with the time of the call on it; a revoke of a triple whose
\* edge was revoked before and that has no non-revoked edge left returns false
\* and leaves every row, the earlier revoked_at included, as it was
C11_RevokeTwice ==
    LET c == last_call["h1"] IN
    c.op = "revoke"
    => /\ (\E i \in TripleRows(c.pre, c.p, c.d, c.w) :
              c.pre[i].revoked_at = NoTime /\ c.pre[i].expires_at > c.t)
          => /\ c.revoked
             /\ \A i \in NonRevoked(c.pre, c.p, c.d, c.w) : c.post[i].revoked_at = c.t
             /\ NonRevoked(c.post, c.p, c.d, c.w) = {}
       /\ (RevokedRows(c.pre, c.p, c.d, c.w) # {} /\ NonRevoked(c.pre, c.p, c.d, c.w) = {})
          => (~ c.revoked /\ c.post = c.pre)

\* the second revoke of a triple came at a later time than the first
C11_Witness ==
    LET c == last_call["h1"] IN
    /\ c.op = "revoke" /\ ~ c.revoked
    /\ NonRevoked(c.pre, c.p, c.d, c.w) = {}
    /\ \E i \in RevokedRows(c.pre, c.p, c.d, c.w) : c.pre[i].revoked_at < c.t

\* C12: revoke_delegation repeated with the same arguments after it
\* succeeded once completes without an error and leaves the store as the
\* first call left it (the persona registry's delete_persona has the same
\* contract and the same shape: look up, act, raise when nothing was changed)
C12_RepeatedRevokeCompletes ==
    LET c == last_call["h1"] IN
    (c.op = "revoke" /\ RevokedRows(c.pre, c.p, c.d, c.w) # {}
        /\ NonRevoked(c.pre, c.p, c.d, c.w) = {})
    => /\ c.raised = ""
       /\ c.http = 200
       /\ c.post = c.pre

----------------------------------------------------------------------------
(* Properties of the path search over all chains of the table *)

\* the chains of n stored rows that lead from src to dst through distinct
\* nodes, every row live at t and matching the workflow filter w
ChainsOfLen(tbl, src, dst, w, t, n) ==
    {c \in [1..n -> DOMAIN tbl] :
        /\ tbl[c[1]].principal_id = src
        /\ tbl[c[n]].delegate_id = dst
        /\ \A k \in 1..n :
              /\ tbl[c[k]].revoked_at = NoTime
              /\ tbl[c[k]].expires_at > t
              /\ (w = NULL \/ tbl[c[k]].workflow_id = w \/ tbl[c[k]].workflow_id = NULL)
              /\ tbl[c[k]].delegate_id # src
              /\ k < n => tbl[c[k]].delegate_id = tbl[c[k + 1]].principal_id
        /\ \A j, k \in 1..n : j < k => tbl[c[j]].delegate_id # tbl[c[k]].delegate_id}

\* the chains of at most n rows that leave at least one action
DelegationChains(tbl, src, dst, w, t, n) ==
    {c \in UNION {ChainsOfLen(tbl, src, dst, w, t, k) : k \in 1..n} :
        ScopeIntersection(tbl, c, DELEGATION_ALLOWED_ACTIONS) # {}}

ChainHasExecute(tbl, c) ==
    "execute" \in ScopeIntersection(tbl, c, DELEGATION_ALLOWED_ACTIONS)

\* C13: when a chain of live edges within max_depth carries execute from the
\* principal to the delegate, find_delegation_path returns a path with
\* execute; and no chain of the same preference (with execute, or without)
\* is shorter than the returned path
C13_PrefersExecuteThenShortest ==
    (q_args.op = "find" /\ q_args.p # q_args.d)
    => LET r == q_result.path
           cs == DelegationChains(delegations, q_args.p, q_args.d, q_args.w, now,
                                  q_args.max_depth)
       IN  /\ (\E c \in cs : ChainHasExecute(delegations, c))
                => (r.found /\ "execute" \in ToSet(r.delegated_actions))
           /\ r.found
                => \A c \in cs :
                      (ChainHasExecute(delegations, c)
                          <=> "execute" \in ToSet(r.delegated_actions))
                      => Len(c) >= Len(r.edges)

\* the chains of at most n live rows, whatever actions they leave
LiveChains(tbl, src, dst, w, t, n) ==
    UNION {ChainsOfLen(tbl, src, dst, w, t, k) : k \in 1..n}

C15_WorkflowFilter ==
    q_args.w # NULL
    => /\ q_args.op = "list_outgoing"
            => ToSet(q_result.rows) =
                 {i \in DOMAIN delegations :
                    /\ delegations[i].principal_id = q_args.p
                    /\ delegations[i].revoked_at = NoTime
                    /\ (q_args.include_expired \/ delegations[i].expires_at > now)
                    /\ delegations[i].workflow_id \in {q_args.w, NULL}}
       /\ q_args.op = "list_incoming"
            => ToSet(q_result.rows) =
                 {i \in DOMAIN delegations :
                    /\ delegations[i].delegate_id = q_args.d
                    /\ delegations[i].revoked_at = NoTime
                    /\ (q_args.include_expired \/ delegations[i].expires_at > now)
                    /\ delegations[i].workflow_id \in {q_args.w, NULL}}
       /\ q_args.op = "find"
            => /\ q_result.path.scanned =
                    {i \in DOMAIN delegations :
                       /\ delegations[i].principal_id \in ToSet(q_result.path.expanded)
                       /\ delegations[i].revoked_at = NoTime
                       /\ delegations[i].expires_at > now
                       /\ delegations[i].workflow_id \in {q_args.w, NULL}}
               /\ ToSet(q_result.path.edges) \subseteq q_result.path.scanned

\* a query for W1 gave a global edge of a node that also has a live edge
\* of another workflow
C15_Witness ==
    /\ q_args.w = "W1"
    /\ q_args.op \in {"list_outgoing", "find"}
    /\ \E i \in ToSet(q_result.rows) \cup q_result.path.scanned :
          delegations[i].workflow_id = NULL
    /\ \E i \in DOMAIN delegations :
          /\ delegations[i].principal_id = q_args.p
          /\ delegations[i].workflow_id = "W2"
          /\ delegations[i].revoked_at = NoTime /\ delegations[i].expires_at > now

----------------------------------------------------------------------------
(* Properties of the evaluation pipeline *)

\* the policy hint names a loaded manifest
HintValid(rq) == rq.policy_hint # NULL /\ rq.policy_hint \in PolicyNames

\* subject, action or resource of the request is malformed
Malformed(rq) == ~ rq.subject_ok \/ rq.action \notin ALLOWED_ACTIONS \/ ~ rq.attrs_ok

\* the reason code of the earliest failing step: subject, action, resource
EarliestCode(rq) ==
    IF ~ rq.subject_ok THEN "authz.invalid_subject"
    ELSE IF rq.action \notin ALLOWED_ACTIONS THEN "authz.invalid_action"
    ELSE "authz.missing_required_attributes"

\* reason codes with which the engine itself denies
EngineDenyCodes ==
    {"authz.invalid_subject", "authz.invalid_action", "authz.missing_required_attributes",
     "authz.persona_fetch_failed", "authz.system_error"}

OpaCalls == {"opa_allow", "opa_reasons"}

\* C16: a request whose policy hint is missing or names no loaded manifest
\* is answered deny with authz.invalid_policy, and a manifest that was
\* selected is the one the hint names
C16_InvalidPolicyDenied ==
    az_out # NoOutcome
    => /\ ~ HintValid(az_out.rq)
            => (az_out.decision = "deny"
                /\ az_out.reason_codes = <<"authz.invalid_policy">>)
       /\ az_out.policy # NULL => az_out.policy = az_out.rq.policy_hint

C18_ShortCircuitStopsCalls ==
    az_out # NoOutcome
    => /\ (az_out.reason_codes # <<>> /\ az_out.reason_codes[1] \in EngineDenyCodes)
            => /\ ~ az_out.opa_called
               /\ \A k \in DOMAIN az_out.calls : az_out.calls[k] \notin OpaCalls
               /\ az_out.reason_codes[1] = "authz.persona_fetch_failed"
                    => az_out.calls = <<"persona_owner">>
               /\ az_out.reason_codes[1] = "authz.system_error"
                    => \A k \in DOMAIN az_out.calls : az_out.calls[k] # "delegation"
       /\ (HintValid(az_out.rq) /\ Malformed(az_out.rq))
            => (~ az_out.opa_called /\ az_out.calls = <<>>)

\* a request with an owner and a principal but without a required resource
\* attribute was denied before any lookup
C18_Witness ==
    /\ az_out.rq.subject_ok /\ az_out.rq.action = "execute" /\ ~ az_out.rq.attrs_ok
    /\ az_out.rq.owner = "U1" /\ az_out.rq.principal = "U2"
    /\ az_out.reason_codes = <<"authz.missing_required_attributes">>
    /\ az_out.calls = <<>>

C21_OwnerPersonaEnriched ==
    (/\ az_out # NoOutcome
     /\ HintValid(az_out.rq) /\ ~ Malformed(az_out.rq)
     /\ az_out.rq.owner # NULL
     /\ az_out.rq.owner_key = "persona_title")
    => /\ \E k \in DOMAIN az_out.calls : az_out.calls[k] = "persona_owner"
       /\ az_out.env.persona = "down"
            => (az_out.decision = "deny"
                /\ az_out.reason_codes = <<"authz.persona_fetch_failed">>)
       /\ (az_out.opa_called /\ az_out.env.persona = "found")
            => /\ persona_attributes(az_out.policy) \subseteq az_out.owner
               /\ az_out.owner \cap PersonaMetadata = {}

\* a cache operation failed during the evaluation: the get, which every
\* lookup with the cache on makes, or the set, which follows a fetch
CacheFailed(o) ==
    /\ cache_enabled
    /\ o.lookup # "none"
    /\ \/ o.fault = "get"
       \/ (o.fault = "set" /\ o.lookup = "fetched")

C24_NoRetry ==
    az_out # NoOutcome => az_out.requests <= 1

----------------------------------------------------------------------------
(* Properties of the HTTP helpers and their cache *)

\* URLs of the resource families persona, delegation and authz
FamilyUrls == {"persona", "delegation", "evaluate"}

\* C22: after a successful POST to a URL of the persona, delegation or authz
\* family the cache holds no entry of that family, and a GET of such a URL
\* that is answered from the cache returns the resource as it is upstream,
\* not as it was before a POST changed it
C22_MutationInvalidatesFamily ==
    /\ (/\ cache_out.op = "post"
        /\ cache_out.raised = ""
        /\ cache_out.fault = "none"
        /\ cache_out.url \in FamilyUrls)
       => \A c \in cache_store : c.key[2] # ResourceType(cache_out.url)
    /\ (/\ cache_out.op = "get"
        /\ cache_out.url \in FamilyUrls
        /\ cache_out.lookup = "cached")
       => cache_out.data = upstream[cache_out.url]

----------------------------------------------------------------------------
(* Properties of get_service_token *)

\* C25: at most one handler thread is waiting for a new token from the
\* identity provider, and every token a call returned was at least 60
\* seconds from its expiry when it was returned
C25_TokenSingleFlight ==
    /\ Cardinality({h \in Procs : tk_pc[h] = "minting"}) <= 1
    /\ \A h \in Procs :
          tk_out[h].access_token # NoToken.access_token
          => tk_out[h].expires_at - tk_out[h].at >= REFRESH_MARGIN

----------------------------------------------------------------------------
(* Properties of the persona registry *)

\* the last call asked for a persona its manifest and the cap admit
CreateAdmissible(o) ==
    /\ o.op = "create"
    /\ o.title \in ALLOWED_PERSONA_TITLES
    /\ o.count < MAX_PERSONAS_PER_USER
    /\ o.custom["autobook_price"] # ABSENT

\* C26: at most one persona exists per (user_sub, title, circle); a create for
\* a triple that exists fails with the already-exists error and leaves the
\* store as it was; a create for a triple that does not exist, with a title and
\* attributes the manifest admits and below the cap, succeeds, so personas of
\* one user that differ in title or in circle coexist.
C26_OnePersonaPerTriple ==
    /\ \A p, q \in personas :
          (p.user_sub = q.user_sub /\ p.title = q.title /\ p.circle = q.circle)
          => p = q
    /\ (ps_out.op = "create" /\ ps_out.existed)
          => /\ ps_out.raised # ""
             /\ ~ps_out.changed
             /\ (CreateAdmissible(ps_out) => ps_out.error = "already_exists")
    /\ (CreateAdmissible(ps_out) /\ ~ps_out.existed)
          => /\ ps_out.raised = ""
             /\ ps_out.changed
             /\ ps_out.after \in personas

\* C27: the personas stored for one user never number more than
\* MAX_PERSONAS_PER_USER, however the create requests of that user interleave.
C27_PersonaCapHolds ==
    Cardinality(list_personas(personas, "U1")) <= MAX_PERSONAS_PER_USER

\* the last call was a create or an update that returned the persona it stored
PersonaWritten(o) ==
    /\ o.op \in {"create", "update"}
    /\ o.raised = ""
    /\ o.after # NoPersona

\* C28: after a create or an update that succeeded, the stored persona holds
\* every attribute the manifest declares with source "persona", with a value of
\* the attribute's declared type.
C28_StoredAttributesComplete ==
    PersonaWritten(ps_out) =>
        /\ ps_out.after \in personas
        /\ \A n \in PersonaAttrNames :
              /\ ps_out.after.attrs[n] # ABSENT
              /\ TypeOf(ps_out.after.attrs[n]) = AttrDef(n).type

\* the attributes the manifest declares with required: true and without default
RequiredNoDefault ==
    {n \in PersonaAttrNames : AttrDef(n).required = "true" /\ AttrDef(n).default = NULL}

\* the last call was a create or an update that left such an attribute without
\* a value: the request carried none and the persona named held none
LeavesRequiredMissing(o) ==
    /\ o.op \in {"create", "update"}
    /\ \E n \in RequiredNoDefault :
          /\ o.custom[n] = ABSENT
          /\ o.before.attrs[n] = ABSENT

\* the checks a call makes before it looks at the attributes all passed
EarlierChecksPass(o) ==
    IF o.op = "create"
    THEN o.title \in ALLOWED_PERSONA_TITLES /\ o.count < MAX_PERSONAS_PER_USER
    ELSE o.before # NoPersona /\ o.title \in ALLOWED_PERSONA_TITLES \cup {NULL}

NoRequiredFlag == {a \in ManifestAttributes : a.required = ABSENT}

\* the Authorization Engine takes an attribute without flag for required
\* exactly when it has no default, and reports it missing exactly then
RequiredInferredByAuthz ==
    /\ \A a \in NoRequiredFlag : load_policy_manifest(a).required = (a.default = NULL)
    /\ \A d \in [ResourceAttrNames -> {ABSENT, NULL, "'x'"}] :
          normalize_attributes_missing(d, ResourceAttrNames)
            = {n \in ResourceAttrNames :
                 AttrDef(n).default = NULL /\ d[n] \in {ABSENT, NULL}}

\* the Persona Registry does the same: a create that passes the earlier checks
\* and carries the attributes flagged required fails for missing attributes
\* exactly when it leaves an attribute without flag and without default unset
RequiredInferredByRegistry ==
    (/\ ps_out.op = "create"
     /\ EarlierChecksPass(ps_out)
     /\ ~LeavesRequiredMissing(ps_out))
    => (ps_out.error = "missing_required"
          <=> \E a \in NoRequiredFlag :
                /\ a.source = "persona"
                /\ a.default = NULL
                /\ ps_out.custom[a.name] = ABSENT)

\* C30: an attribute the manifest declares without a required flag is required
\* exactly when its default is null, in the Authorization Engine's
\* normalization of resource attributes and in the Persona Registry's
\* validation of persona attributes.
C30_RequiredDefaultsToNoDefault ==
    /\ RequiredInferredByAuthz
    /\ RequiredInferredByRegistry

\* the last call was an update that succeeded
Updated(o) == o.op = "update" /\ o.raised = ""

\* the fields of a persona an update leaves alone when the call does not name them
FieldsKept(o) ==
    /\ o.after.persona_id = o.before.persona_id
    /\ o.after.user_sub = o.before.user_sub
    /\ o.after.circle = o.before.circle
    /\ (o.title = NULL => o.after.title = o.before.title)

C32_PersonaIdIsComposite ==
    PersonaWritten(ps_out) =>
        /\ ps_out.after \in personas
        /\ ps_out.after.persona_id
             = <<ps_out.after.user_sub, ps_out.after.title, ps_out.after.circle>>

----------------------------------------------------------------------------
(* Properties of sub-delegation *)

\* a chain of live edges of tbl, matching the workflow filter, leads from the
\* principal to the delegator and leaves every one of the actions
EntitledChain(tbl, principal_id, delegator_id, w, t, actions) ==
    \E n \in 1..DefaultMaxDepth :
      \E c \in ChainsOfLen(tbl, principal_id, delegator_id, w, t, n) :
        actions \subseteq ScopeIntersection(tbl, c, DELEGATION_ALLOWED_ACTIONS)

\* C37: a create_delegation issued by a delegator other than the principal
\* writes or widens an edge only if, when it ran, a chain of live edges led
\* from the principal to the delegator whose actions include every action of
\* the requested scope; without such a chain the call fails with a 400 and
\* the table is as it was.
C37_NoAmplification ==
    \A h \in Procs :
      LET c == last_call[h] IN
      (c.op = "create" /\ c.delegator # NULL)
      => LET entitled == EntitledChain(c.pre, c.p, c.delegator, c.w, c.t,
                                       RequestedActions(c.s))
         IN  /\ (c.post # c.pre => entitled)
             /\ (~entitled => /\ c.raised = "ValueError"
                              /\ c.http = 400
                              /\ c.post = c.pre)

C37_Witness ==
    LET c == last_call["h1"] IN
    /\ c.op = "create"
    /\ c.delegator = "U2"
    /\ c.d = "U3"
    /\ c.post # c.pre
    /\ \E i \in DOMAIN c.post : c.post[i].delegate_id = "U3"
    /\ \E i \in DOMAIN c.pre : c.pre[i].delegate_id = "U2"

----------------------------------------------------------------------------
(* Completeness and termination of the path search *)

\* C38: when a chain of at most max_depth live edges that match the workflow
\* filter and share at least one action leads from the principal to the
\* delegate, find_delegation_path returns a path
C38_FindsPathWithinBound ==
    (q_args.op = "find" /\ q_args.p # q_args.d)
    => (DelegationChains(delegations, q_args.p, q_args.d, q_args.w, now,
                         q_args.max_depth) # {}
          => q_result.path.found)

\* the nodes the rows of tbl mention
NodesOf(tbl) ==
    {tbl[i].principal_id : i \in DOMAIN tbl} \cup {tbl[i].delegate_id : i \in DOMAIN tbl}

\* a chain of fewer than max_depth live, filter-matching edges leads to node
WithinReach(tbl, src, node, w, t, max_depth) ==
    \/ node = src
    \/ \E k \in 1..(max_depth - 1) : ChainsOfLen(tbl, src, node, w, t, k) # {}

\* C40: a search of any table, cycles included, comes to an end having
\* expanded every node at most once (so after at most as many hop queries as
\* there are nodes), expands only nodes fewer than max_depth edges away from
\* the principal, and returns a path of at most max_depth edges
C40_SearchIsBounded ==
    (q_args.op = "find" /\ q_args.p # q_args.d)
    => LET r == q_result.path IN
       /\ \A i, j \in DOMAIN r.expanded : i # j => r.expanded[i] # r.expanded[j]
       /\ Len(r.expanded) <= Cardinality(NodesOf(delegations) \cup {q_args.p})
       /\ \A i \in DOMAIN r.expanded :
             WithinReach(delegations, q_args.p, r.expanded[i], q_args.w, now,
                         q_args.max_depth)
       /\ Len(r.edges) <= q_args.max_depth
       /\ r.found => Len(r.path) = Len(r.edges) + 1

\* a search that expanded a node whose edge leads back to the principal and
\* stopped before a node that lies max_depth edges away
C40_Witness ==
    /\ q_args.op = "find" /\ q_args.p # q_args.d
    /\ \E i \in q_result.path.scanned :
          /\ delegations[i].delegate_id = q_args.p
          /\ delegations[i].principal_id # q_args.p
    /\ Len(q_result.path.expanded) >= 2
    /\ \E n \in NodesOf(delegations) :
          /\ ChainsOfLen(delegations, q_args.p, n, q_args.w, now, q_args.max_depth) # {}
          /\ \A i \in DOMAIN q_result.path.expanded : q_result.path.expanded[i] # n

----------------------------------------------------------------------------
(* Properties of the workflow items of the domain service *)

\* the execute call that has just returned changed the item (w, i) for real
ExecutedForReal(call, w, i) ==
    /\ call.op = "execute" /\ call.workflow_id = w /\ call.item_id = i
    /\ call.http = 200 /\ ~ call.dry_run

\* C39 as stated: the status of an item only moves planned -> booked ->
\* rebooked, never back, and only by an execute that was allowed and was no
\* dry run
C39_StatusOnlyForward ==
    [][\A w \in WorkflowIds, i \in ItemIds :
          LET b == workflows[w].items[i].status
              a == workflows'[w].items[i].status
          IN  a # b => /\ ExecutedForReal(ds_out', w, i)
                       /\ <<b, a>> \in {<<"planned", "booked">>, <<"booked", "rebooked">>}
      ]_vars

\* C39, amended: an execute that was allowed and was no dry run moves the
\* item planned -> booked, booked -> rebooked and rebooked -> booked again;
\* a denied, failed or dry-run execute leaves every status as it was
C39_StatusAlternates ==
    [][\A w \in WorkflowIds, i \in ItemIds :
          LET b == workflows[w].items[i].status
              a == workflows'[w].items[i].status
          IN  IF workflows[w].created /\ ExecutedForReal(ds_out', w, i)
              THEN <<b, a>> \in {<<"planned", "booked">>, <<"booked", "rebooked">>,
                                 <<"rebooked", "booked">>}
              ELSE a = b
      ]_vars

\* a third allowed execute took a rebooked item back to booked
C39_Witness ==
    /\ ds_out.op = "execute" /\ ds_out.http = 200 /\ ~ ds_out.dry_run
    /\ ds_out.before = "rebooked"
    /\ ds_out.after = "booked"
    /\ workflows[ds_out.workflow_id].items[ds_out.item_id].status = "booked"

----------------------------------------------------------------------------
(* Properties of the agent runner *)

\* execute_workflow_run ran and the listing answered 200 with its items
RunOverListing(call) ==
    /\ call.op = "execute_workflow_run"
    /\ call.listing.net = "ok" /\ call.listing.status = 200

\* the reason codes a 403 body carries: those of its detail object, or those
\* its message lists
ResponseCodes(body) == IF body.detail = "dict" THEN body.reason_codes ELSE body.listed

\* C33: a run over a listing of N items returns a record with N results, one
\* per item in the order of the listing, whatever the execute calls answer
C33_OneResultPerItem ==
    RunOverListing(ag_out)
    => LET items == ItemsWithId(ag_out.listing.items) IN
       /\ ag_out.run.raised = "none"
       /\ ag_out.run.record
       /\ Len(ag_out.run.results) = Len(items)
       /\ \A k \in 1..Len(items) : ag_out.run.results[k].workflow_item_id = items[k]

\* C34: the result of every item is completed/allow after a 2xx answer,
\* completed/deny with the reason codes of the response after a 403, and
\* error/deny with agent_runner.item_execution_failed after any other status
\* or when the request got no answer
C34_ItemClassification ==
    RunOverListing(ag_out)
    => \A k \in 1..Len(ItemsWithId(ag_out.listing.items)) :
         /\ k <= Len(ag_out.run.results)
         /\ LET resp == ag_out.responses[k]
                r == ag_out.run.results[k]
            IN  IF resp.net = "ok" /\ 200 <= resp.status /\ resp.status < 300
                THEN r.status = "completed" /\ r.decision = "allow"
                ELSE IF resp.net = "ok" /\ resp.status = 403
                THEN /\ r.status = "completed" /\ r.decision = "deny"
                     /\ ResponseCodes(resp.body) # <<>>
                          => r.reason_codes = ResponseCodes(resp.body)
                ELSE /\ r.status = "error" /\ r.decision = "deny"
                     /\ r.reason_codes = <<"agent_runner.item_execution_failed">>

\* the pre-flight of POST /v1/workflow-runs did not say allow
PreflightRefused(call) ==
    /\ call.op = "post_workflow_runs"
    /\ call.preflight.raised = "none" /\ call.preflight.decision # "allow"

\* execute_workflow_run ran and the listing answered 403
ListingRefused(call) ==
    /\ call.op = "execute_workflow_run"
    /\ call.listing.net = "ok" /\ call.listing.status = 403

C36_AllowedRunPassesPreflight ==
    ( /\ ag_out.op = "post_workflow_runs"
      /\ ag_out.principal.id # ABSENT /\ ag_out.principal.persona # ABSENT
      /\ ag_out.workflow = "ok" /\ ag_out.authz = "allow"
      /\ ag_out.listing.net = "ok" /\ ag_out.listing.status = 200
      /\ \A k \in DOMAIN ag_out.responses : ag_out.responses[k].net = "ok" )
    => /\ ag_out.preflight.decision = "allow"
       /\ \E k \in DOMAIN ag_out.preflight.calls : ag_out.preflight.calls[k] = "evaluate"
       /\ ag_out.http = 200
       /\ ag_out.run.record
       /\ ~ ag_out.run.has_error
       /\ ag_out.run.posts = Len(ItemsWithId(ag_out.listing.items))
====
